---- MODULE Spec2Model ----
(***************************************************************************)
(* The query pipeline of ResearchAgent: process_enhanced_query             *)
(* (backend/app/workflows/enhanced_frag.py) and the stages it drives.      *)
(*                                                                         *)
(* Numbers.  Every score the code keeps as a float in [0,1] is an integer  *)
(* number of hundredths here (0.85 is 85); the confidence of a response is *)
(* in units of 1/10000, so that a weight in hundredths times a score in    *)
(* hundredths is exact.  A division the code does in floating point is an  *)
(* integer division here.                                                  *)
(*                                                                         *)
(* One request is in flight at a time; its position is pc.  The process-   *)
(* wide singletons (quantum_retriever, neuromorphic_memory,                *)
(* holographic_storage, swarm_retriever, gemini_speculative_rag) are the   *)
(* shared variables and outlive a request.                                 *)
(***************************************************************************)
EXTENDS Integers, Sequences, FiniteSets, TLC

(***************************************************************************)
(* Bounds of the model.                                                    *)
(***************************************************************************)
MaxDocs == 2
MaxChunks == 3
MaxQueries == 2
NumAgents == 1

(***************************************************************************)
(* Program constants.                                                      *)
(***************************************************************************)
QuantumMaxResults == 15
CandidateFactor == 2
FetchFactor == 3
CoherenceInit == 85
CoherenceStep == 1
CoherenceCap == 95
ProbFloorInv == 100
BaseWeight == 50
WeightIncrement == 10
WeightCap == 100
TouchLimit == 5
DecayPeriod == 10
PruneFloor == 1
AssociationIncrement == 5
AssociationCap == 100
DefaultStrength == 75
CompressionPerDoc == 10
CompressionCap == 80
CompressionNorm == 80
DefaultConsensus == 92
ConsensusBoost == 50
ConsensusCap == 95
TemporalConfidence == 78
RelevanceFloor == 15
BestChunkLimit == 8
ExtractLimit == 5
ExtractionCap == 60
GeminiCap == 98
HallucinationLen == 50
GroundednessFloor == 30
WCoherence == 15
WMemory == 15
WCompression == 10
WConsensus == 20
WTemporal == 15
WGeneration == 25

(***************************************************************************)
(* The corpus: documents, their chunks, and what a query sees of a chunk.  *)
(***************************************************************************)
DocIds == 1..MaxDocs
ChunkIds == 1..MaxChunks

\* chunks.document_id: chunk c belongs to one document, fixed at ingestion.
DocOf(c) == ((c - 1) % MaxDocs) + 1

\* The queries a caller sends.  What a query is matters through the cosine
\* similarity and the word overlap it has with each chunk.
Queries == {"q_none", "q_other", "q_all"}

\* Cosine similarity of query and chunk, in hundredths: the SQL column
\* 1 - (embedding <=> query) and the similarity create_quantum_state recomputes.
\*   q_none : orthogonal to every chunk;
\*   q_other: close to the chunks of document 2, next to orthogonal to the others;
\*   q_all  : similar to every chunk, most of all to those of document 2.
SimOf(q, c) ==
  CASE q = "q_none" -> 0
    [] q = "q_other" -> IF DocOf(c) = 2 THEN 100 - c ELSE IF c = 1 THEN 1 ELSE -1
    [] q = "q_all" -> IF DocOf(c) = 2 THEN 100 - c ELSE 40 + c

\* Share of the query's words found in the chunk, in hundredths:
\* len(query_words & content_words) / len(query_words).
OverlapOf(q, c) ==
  CASE q = "q_none" -> 0
    [] q = "q_other" -> IF DocOf(c) = 2 THEN 100 ELSE 0
    [] q = "q_all" -> IF DocOf(c) = 2 THEN 100 ELSE 50

(***************************************************************************)
(* Sequences.                                                              *)
(***************************************************************************)
Abs(x) == IF x < 0 THEN -x ELSE x
Min(a, b) == IF a < b THEN a ELSE b

Range(s) == {s[i] : i \in DOMAIN s}

\* s[:n]
Take(s, n) == SubSeq(s, 1, Min(n, Len(s)))

Reverse(s) == [i \in 1..Len(s) |-> s[Len(s) + 1 - i]]

RECURSIVE SumOver(_, _)
SumOver(s, f) == IF s = <<>> THEN 0 ELSE f[Head(s)] + SumOver(Tail(s), f)

\* [x for x in s if x in keep]
RECURSIVE FilterSeq(_, _)
FilterSeq(s, keep) ==
  IF s = <<>> THEN <<>>
  ELSE IF Head(s) \in keep THEN <<Head(s)>> \o FilterSeq(Tail(s), keep)
  ELSE FilterSeq(Tail(s), keep)

RECURSIVE InsertAsc(_, _, _)
InsertAsc(sorted, x, key) ==
  IF sorted = <<>> THEN <<x>>
  ELSE IF key[x] < key[Head(sorted)] THEN <<x>> \o sorted
  ELSE <<Head(sorted)>> \o InsertAsc(Tail(sorted), x, key)

\* A stable ascending sort by key (elements with equal keys keep their order).
RECURSIVE StableSortAsc(_, _)
StableSortAsc(s, key) ==
  IF s = <<>> THEN <<>>
  ELSE InsertAsc(StableSortAsc(SubSeq(s, 1, Len(s) - 1), key), s[Len(s)], key)

\* sorted(s, key=..., reverse=True): stable, descending.
StableSortDesc(s, key) == StableSortAsc(s, [x \in DOMAIN key |-> 0 - key[x]])

\* np.argsort(key)[::-1]: ascending, then reversed, so equal keys come out in
\* the reverse of their input order.
ArgsortReversed(s, key) == Reverse(StableSortAsc(s, key))

\* The set as a sequence in ascending order.
RECURSIVE SetToSeq(_)
SetToSeq(S) ==
  IF S = {} THEN <<>>
  ELSE LET m == CHOOSE x \in S : \A y \in S : x <= y
       IN <<m>> \o SetToSeq(S \ {m})

\* Every ordering of all elements of s but one.
OrderingsOfAllButOne(s) ==
  {p \in [1..(Len(s) - 1) -> Range(s)] : \A i, j \in 1..(Len(s) - 1) : i # j => p[i] # p[j]}

\* Every ordering of the elements of s.
Permutations_(s) ==
  {p \in [1..Len(s) -> Range(s)] : \A i, j \in 1..Len(s) : i # j => p[i] # p[j]}


\* dict[k] = v
Put(f, k, v) == [x \in (DOMAIN f) \cup {k} |-> IF x = k THEN v ELSE f[x]]

\* The empty dict.
EmptyDict == [x \in {} |-> 0]

(***************************************************************************)
(* State.                                                                  *)
(***************************************************************************)
VARIABLES
  corpus,            \* documents whose chunks are in the chunks table
  coherence,         \* QuantumRetrieval.coherence
  synaptic_weights,  \* NeuromorphicMemory.synaptic_weights: chunk_id -> weight
  access_history,    \* NeuromorphicMemory.access_history: chunk_id -> number of recorded accesses
  reference_waves,   \* HolographicStorage.reference_waves: the doc_ids encoded
  dimensions,        \* SwarmIntelligenceRetrieval.dimensions (0 is None)
  agents,            \* SwarmIntelligenceRetrieval.agents: best_score of each agent
  global_best_score, \* SwarmIntelligenceRetrieval.global_best_score
  available,         \* GeminiSpeculativeRAG.available
  pc,                \* where process_enhanced_query stands
  query,             \* its argument query
  document_ids,      \* its argument document_ids after lines 16-17 ({} is None)
  quantum_chunks,    \* its local quantum_chunks
  swarm_out,         \* what collective_retrieve returned, before the filter
  swarm_chunks,      \* its local swarm_chunks, after the filter
  temporal_context,  \* temporal_context['confidence']
  best_chunks,       \* generate_answer's local best_chunks
  result,            \* its local result (what generate_answer returned)
  response,          \* the QueryResponse returned
  outcome,           \* how the call ended: "pending", "returned", "raised"
  exc,               \* the exception the except clause caught ("none" when none)
  tiers,             \* the generation tiers generate_answer attempted, with their outcomes
  invoked,           \* the stage banners printed by this call, in order
  started,           \* number of calls made so far
  call,              \* the last direct call of a service method, with what it returned
  association_matrix, \* NeuromorphicMemory.association_matrix: (chunk1, chunk2) -> strength
  recent,            \* the chunks with an access inside the plasticity window
  key_order,         \* the keys of synaptic_weights in the dict's insertion order
  pg_pool,           \* db_manager.pg_pool: "absent" (None), or a pool whose store
                     \* executes the upsert ("ok") or raises on it ("raises")
  tasks,             \* the tasks calling adapt_retrieval, each with its position
  running,           \* the task the event loop is running ("none" between tasks)
  global_best_position, \* SwarmIntelligenceRetrieval.global_best_position: "None" or "set"
  pheromone_trails,  \* SwarmIntelligenceRetrieval.pheromone_trails: the agents one of
                     \* whose best positions is a key of the map
  population         \* the specialization and the vector length of each agent

shared == <<corpus, coherence, synaptic_weights, access_history, reference_waves,
            dimensions, agents, global_best_score, available>>
locals == <<query, document_ids, quantum_chunks, swarm_out, swarm_chunks,
            temporal_context, best_chunks, result, response, outcome, exc, tiers, invoked>>
plasticity == <<association_matrix, recent, key_order>>
concurrency == <<pg_pool, tasks, running>>
colony == <<global_best_position, pheromone_trails, population>>
aside == <<call, concurrency, colony>>
vars == <<shared, pc, locals, started, aside, plasticity>>

(***************************************************************************)
(* Stage 1: hybrid retrieval and the vector-phase reranker.                *)
(***************************************************************************)
SimKey(q) == [c \in ChunkIds |-> SimOf(q, c)]

\* The rows of SimpleRetriever's SELECT: the chunks of the corpus, those of
\* document_ids only when a selection is given (WHERE c.document_id = ANY($2)),
\* nearest first, at most limit of them.
VectorSearch(q, ids, limit) ==
  LET rows == {c \in ChunkIds : /\ DocOf(c) \in corpus
                               /\ (ids # {} => DocOf(c) \in ids)}
  IN Take(StableSortDesc(SetToSeq(rows), SimKey(q)), limit)

SeqMin(s, f) == CHOOSE m \in {f[x] : x \in Range(s)} : \A x \in Range(s) : m <= f[x]
SeqMax(s, f) == CHOOSE m \in {f[x] : x \in Range(s)} : \A x \in Range(s) : m >= f[x]

\* 0.6 * vector_norm + 0.4 * bm25_norm of SimpleRetriever._hybrid_rerank, scaled
\* by the two score ranges so that it stays an integer.  A range of zero makes
\* the normalised score 0, as (x - min) / (0 + 1e-10) is for x = min.  The BM25
\* score of a chunk is taken to be its word overlap with the query.
CombinedScore(q, chunks) ==
  LET v == SimKey(q)
      b == [c \in ChunkIds |-> OverlapOf(q, c)]
      vR == SeqMax(chunks, v) - SeqMin(chunks, v)
      bR == SeqMax(chunks, b) - SeqMin(chunks, b)
      vS == IF vR = 0 THEN 1 ELSE vR
      bS == IF bR = 0 THEN 1 ELSE bR
  IN [c \in ChunkIds |->
        IF c \in Range(chunks)
        THEN 6 * (v[c] - SeqMin(chunks, v)) * bS + 4 * (b[c] - SeqMin(chunks, b)) * vS
        ELSE 0]

HybridRerank(q, chunks, top_k) ==
  IF Len(chunks) <= top_k THEN chunks
  ELSE Take(ArgsortReversed(chunks, CombinedScore(q, chunks)), top_k)

\* SimpleRetriever.retrieve once the rows are there.
RerankRows(q, rows, max_results) ==
  IF rows = <<>> THEN <<>> ELSE HybridRerank(q, rows, max_results)

\* |amplitude|^2 of a chunk before normalisation: sqrt(|similarity|) squared.
ProbWeight(q) == [c \in ChunkIds |-> Abs(SimOf(q, c))]

\* prob > 0.01, where prob is the chunk's weight over the sum of all weights
\* (and 0 when the state vector has norm 0).
AboveProbFloor(q, chunks, c) ==
  ProbFloorInv * ProbWeight(q)[c] > SumOver(chunks, ProbWeight(q))

\* What QuantumRetrieval.retrieve returns for the candidates chunks.
QuantumMeasure(q, chunks, max_results) ==
  LET ranked == ArgsortReversed(chunks, ProbWeight(q))
  IN FilterSeq(Take(ranked, max_results),
               {c \in Range(chunks) : AboveProbFloor(q, chunks, c)})

\* QuantumRetrieval.coherence after retrieve saw the candidates chunks.
CoherenceAfter(chunks) ==
  IF chunks = <<>> THEN coherence
  ELSE Min(CoherenceInit + Len(chunks) * CoherenceStep, CoherenceCap)

(***************************************************************************)
(* Responses.                                                              *)
(***************************************************************************)
NoResponse ==
  [answer |-> <<>>, sources |-> <<>>, query_type |-> "none", confidence |-> 0,
   metadata |-> <<>>]

NoResultsResponse ==
  [answer |-> <<"no_relevant_documents">>, sources |-> <<>>,
   query_type |-> "no-results", confidence |-> 0,
   metadata |-> <<<<"reason", "no_documents_found">>>>]

NoResult == [answer |-> <<>>, confidence |-> 0, sources |-> <<>>, model |-> "none"]

\* No service method has been called directly.
NoCall ==
  [op |-> "none", query |-> "q_none", chunks |-> <<>>, limit |-> 0, dim |-> 0,
   graph |-> "none", before |-> <<0, <<>>, 0>>, expanded |-> <<>>, ret |-> <<>>,
   raised |-> FALSE, decayed |-> FALSE, iterations |-> 0, adapted |-> {},
   converting |-> {}, start |-> <<>>, colony |-> <<>>, value |-> 0]

\* The tasks that call adapt_retrieval, and a task that has made no call.
Tasks == {"A", "B"}

IdleTask ==
  [pc |-> "idle", todo |-> <<>>, chunks |-> <<>>, i |-> 0, keys |-> <<>>, k |-> 0,
   strengthened |-> 0, associated |-> 0,
   status |-> "none", exc |-> "none"]

NoTasks == [t \in Tasks |-> IdleTask]

(***************************************************************************)
(* The initial state: the process has started and its singletons are as    *)
(* constructed; the database is empty, or holds the documents uploaded     *)
(* before the process was restarted.                                       *)
(***************************************************************************)
Init ==
  /\ corpus \in {{}, DocIds}
  /\ coherence = CoherenceInit
  /\ synaptic_weights = EmptyDict
  /\ access_history = EmptyDict
  /\ reference_waves = {}
  /\ dimensions = 0
  /\ agents = <<>>
  /\ global_best_score = 0
  /\ available \in BOOLEAN
  /\ pc = "idle"
  /\ query = "q_none"
  /\ document_ids = {}
  /\ quantum_chunks = <<>>
  /\ swarm_out = <<>>
  /\ swarm_chunks = <<>>
  /\ temporal_context = 0
  /\ best_chunks = <<>>
  /\ result = NoResult
  /\ response = NoResponse
  /\ outcome = "pending"
  /\ exc = "none"
  /\ tiers = <<>>
  /\ invoked = <<>>
  /\ started = 0
  /\ call = NoCall
  /\ association_matrix = EmptyDict
  /\ recent = {}
  /\ key_order = <<>>
  /\ global_best_position = "None"
  /\ pheromone_trails = {}
  /\ population = <<>>
  /\ pg_pool = "ok"
  /\ tasks = NoTasks
  /\ running = "none"

\* An upload between two queries: ingest_document inserts the chunks of the next
\* document (documents.id is SERIAL) and encodes the document in the hologram.
IngestDocument(d) ==
  /\ pc = "idle"
  /\ d = Cardinality(corpus) + 1
  /\ corpus' = corpus \cup {d}
  /\ reference_waves' = reference_waves \cup {d}
  /\ UNCHANGED <<aside, plasticity>>
  /\ UNCHANGED <<coherence, synaptic_weights, access_history, dimensions, agents,
                 global_best_score, available, pc, locals, started>>

\* A call process_enhanced_query(q, ids) begins; an empty ids becomes None.
Submit(q, ids) ==
  /\ pc = "idle"
  /\ started < MaxQueries
  /\ started' = started + 1
  /\ query' = q
  /\ document_ids' = ids
  /\ quantum_chunks' = <<>>
  /\ swarm_out' = <<>>
  /\ swarm_chunks' = <<>>
  /\ temporal_context' = 0
  /\ best_chunks' = <<>>
  /\ result' = NoResult
  /\ response' = NoResponse
  /\ outcome' = "pending"
  /\ exc' = "none"
  /\ tiers' = <<>>
  /\ invoked' = <<>>
  /\ pc' = "quantum"
  /\ UNCHANGED <<aside, plasticity>>
  /\ UNCHANGED shared

\* The check of line 35 left out: the pipeline goes on with no chunks.
RetrievalNeverEmpty(found) == FALSE

\* Line 35: if not quantum_chunks
RetrievalEmpty(found) == found = <<>>

\* Lines 26-42: quantum_retriever.retrieve over the rows the vector search
\* returned, then the no-results return.
RetrieveFrom(rows) ==
  LET chunks == RerankRows(query, rows, QuantumMaxResults * CandidateFactor)
      found == IF chunks = <<>> THEN <<>>
               ELSE QuantumMeasure(query, chunks, QuantumMaxResults)
  IN /\ pc = "quantum"
     /\ invoked' = Append(invoked, "quantum")
     /\ coherence' = CoherenceAfter(chunks)
     /\ quantum_chunks' = found
     /\ IF RetrievalEmpty(found)
        THEN /\ response' = NoResultsResponse
             /\ outcome' = "returned"
             /\ pc' = "done"
        ELSE /\ pc' = "memory"
             /\ UNCHANGED <<response, outcome>>
     /\ UNCHANGED <<aside, plasticity>>
     /\ UNCHANGED <<corpus, synaptic_weights, access_history, reference_waves,
                    dimensions, agents, global_best_score, available, query,
                    document_ids, swarm_out, swarm_chunks, temporal_context,
                    best_chunks, result, exc, tiers, started>>

QuantumRetrieve ==
  RetrieveFrom(VectorSearch(query, document_ids,
                            QuantumMaxResults * CandidateFactor * FetchFactor))

(***************************************************************************)
(* Stage 2: usage-adaptive memory.                                         *)
(***************************************************************************)
\* strengthen_synapse(c): a chunk without a weight starts from the base weight
\* with an empty history; the weight grows by the increment up to the cap and
\* the access is recorded.
StrengthenWeights(w, c) ==
  LET w0 == IF c \in DOMAIN w THEN w[c] ELSE BaseWeight
  IN Put(w, c, Min(WeightCap, w0 + WeightIncrement))

StrengthenHistory(w, h, c) ==
  LET h0 == IF c \in DOMAIN w /\ c \in DOMAIN h THEN h[c] ELSE 0
  IN Put(h, c, h0 + 1)

\* for chunk in chunks: strengthen_synapse(chunk.id)
RECURSIVE StrengthenAll(_, _, _)
StrengthenAll(w, h, chunks) ==
  IF chunks = <<>> THEN <<w, h>>
  ELSE StrengthenAll(StrengthenWeights(w, Head(chunks)),
                     StrengthenHistory(w, h, Head(chunks)), Tail(chunks))

\* tuple(sorted([chunk_id, other_chunk]))
Pair(a, b) == IF a < b THEN <<a, b>> ELSE <<b, a>>

\* _update_associations(c): the association of c with every other chunk that
\* has an access inside the plasticity window grows by the increment, up to
\* the cap; a pair without an association starts from 0.
UpdateAssociations(m, h, rec, c) ==
  LET pairs == {Pair(c, o) : o \in ((DOMAIN h) \cap rec) \ {c}}
  IN [p \in (DOMAIN m) \cup pairs |->
        IF p \in pairs
        THEN Min(AssociationCap, (IF p \in DOMAIN m THEN m[p] ELSE 0) + AssociationIncrement)
        ELSE m[p]]

\* The association matrix after strengthen_synapse of every chunk in turn.
RECURSIVE AssociateAll(_, _, _, _, _)
AssociateAll(m, w, h, rec, chunks) ==
  IF chunks = <<>> THEN m
  ELSE LET c == Head(chunks)
           h1 == StrengthenHistory(w, h, c)
       IN AssociateAll(UpdateAssociations(m, h1, rec \cup {c}, c), StrengthenWeights(w, c),
                       h1, rec \cup {c}, Tail(chunks))

\* Lines 27-28: a chunk without a weight becomes the dict's last key.
StrengthenOrder(o, w, c) == IF c \in DOMAIN w THEN o ELSE Append(o, c)

RECURSIVE OrderAll(_, _, _)
OrderAll(o, w, chunks) ==
  IF chunks = <<>> THEN o
  ELSE OrderAll(StrengthenOrder(o, w, Head(chunks)), StrengthenWeights(w, Head(chunks)),
                Tail(chunks))

\* exp(-decay_rate * hours_since_access), in hundredths, for the times that may
\* have passed since a chunk's last access: none, some, very long.
DecayFactors == {100, 50, 0}

\* A decay pass that removes no weight.
ApplyMemoryDecayKeepsWeak(w, h, f) ==
  [c \in DOMAIN w |-> IF c \in DOMAIN h THEN (w[c] * f[c]) \div 100 ELSE w[c]]

\* apply_memory_decay with the factor f[c] for chunk c: every weight that has a
\* history is multiplied by its factor, and a weight below the floor is deleted.
ApplyMemoryDecay(w, h, f) ==
  LET decayed == [c \in DOMAIN w |-> IF c \in DOMAIN h THEN (w[c] * f[c]) \div 100 ELSE w[c]]
      kept == {c \in DOMAIN w : c \in DOMAIN h => decayed[c] >= PruneFloor}
  IN [c \in kept |-> decayed[c]]

\* get_memory_strength(): the mean weight, or the default when there is none.
MemoryStrength(w) ==
  IF DOMAIN w = {} THEN DefaultStrength
  ELSE SumOver(SetToSeq(DOMAIN w), w) \div Cardinality(DOMAIN w)

\* Lines 44-47: neuromorphic_memory.adapt_retrieval(query, quantum_chunks).
AdaptRetrieval ==
  /\ pc = "memory"
  /\ invoked' = Append(invoked, "memory")
  /\ LET touched == Take(quantum_chunks, TouchLimit)
         after == StrengthenAll(synaptic_weights, access_history, touched)
     IN /\ access_history' = after[2]
        /\ IF quantum_chunks # <<>> /\ Cardinality(DOMAIN after[2]) % DecayPeriod = 0
           THEN \E f \in [DOMAIN after[1] -> DecayFactors] :
                   synaptic_weights' = ApplyMemoryDecay(after[1], after[2], f)
           ELSE synaptic_weights' = after[1]
        /\ association_matrix' = AssociateAll(association_matrix, synaptic_weights,
                                              access_history, recent, touched)
        /\ recent' = recent \cup Range(touched)
        /\ key_order' = FilterSeq(OrderAll(key_order, synaptic_weights, touched),
                                  DOMAIN synaptic_weights')
  /\ pc' = "holographic"
  /\ UNCHANGED aside
  /\ UNCHANGED <<corpus, coherence, reference_waves, dimensions, agents,
                 global_best_score, available, query, document_ids, quantum_chunks,
                 swarm_out, swarm_chunks, temporal_context, best_chunks, result,
                 response, outcome, exc, tiers, started>>

(***************************************************************************)
(* Stage 3: holographic storage.                                           *)
(***************************************************************************)
\* get_compression_ratio()
CompressionRatio(waves) ==
  IF Cardinality(waves) > 0
  THEN Min(Cardinality(waves) * CompressionPerDoc, CompressionCap)
  ELSE CompressionCap

\* Lines 49-52: holographic_storage.reconstruct returns its argument.
Reconstruct ==
  /\ pc = "holographic"
  /\ invoked' = Append(invoked, "holographic")
  /\ pc' = "swarm"
  /\ UNCHANGED <<aside, plasticity>>
  /\ UNCHANGED <<shared, query, document_ids, quantum_chunks, swarm_out,
                 swarm_chunks, temporal_context, best_chunks, result, response,
                 outcome, exc, tiers, started>>

(***************************************************************************)
(* Stage 4: the swarm, then the document-selection filter.                 *)
(***************************************************************************)
\* len(query_embedding) for the embedding model in use.
EmbeddingDim == 384

\* The fitness values an agent's position may have, in hundredths: a negative
\* one, which never becomes a best score, and a positive one.
FitnessLevels == {-20, 60}

\* swarm_search(..., iterations: int = 100)
DefaultIterations == 100

\* collective_retrieve: swarm_search(query_embedding, chunks, iterations=20)
CollectiveIterations == 20

\* if iteration % 20 == 0
AdaptEvery == 20

\* if progress > 0.7, in tenths
LateStageTenths == 7

\* sorted(self.agents, ...)[:10]
TrailAgents == 10

\* initialize_swarm: every agent starts with best_score 0.
InitialAgents == [i \in 1..NumAgents |-> 0]

\* _ensure_initialized(d)
EnsureInitialized(d) == IF dimensions # d THEN InitialAgents ELSE agents

\* Iterations that take every fitness as the new best score.
SwarmRunsTakeAny(old) == [1..NumAgents -> FitnessLevels \cup Range(old)]

\* The best_score vectors the iterations of _update_swarm may leave behind,
\* starting from old: a best_score changes only to a larger fitness.
SwarmRuns(old) ==
  {new \in [1..NumAgents -> FitnessLevels \cup Range(old)] :
     \A i \in 1..NumAgents : new[i] = old[i] \/ (new[i] \in FitnessLevels /\ new[i] > old[i])}

\* max(floor, max(s))
SeqMaxOf(s, floor) ==
  CHOOSE m \in Range(s) \cup {floor} : \A x \in Range(s) \cup {floor} : m >= x

\* get_consensus()
Consensus(ag) ==
  LET positive == FilterSeq(ag, {x \in Range(ag) : x > 0})
  IN IF positive = <<>> THEN DefaultConsensus
     ELSE Min(SumOver(positive, [x \in Range(ag) |-> x]) \div Len(positive) + ConsensusBoost,
              ConsensusCap)

\* The comprehension of line 61 without its condition.
SelectionFilterKeepsAll(chunks, ids) == chunks

\* Line 61: [c for c in swarm_chunks if c.document_id in document_ids]
SelectionFilter(chunks, ids) == FilterSeq(chunks, {c \in Range(chunks) : DocOf(c) \in ids})

NotInSelectedResponse(q, ids, before) ==
  [answer |-> <<"not_in_selected_documents", q>>, sources |-> <<>>,
   query_type |-> "not-in-selected-documents", confidence |-> 0,
   metadata |-> <<<<"reason", "answer_not_in_selected_documents">>,
                  <<"selected_document_ids", ids>>,
                  <<"chunks_filtered_out", before>>>>]

\* The return of lines 66-79 left out.
FilterNeverRefuses(filtered, ids) == FALSE

\* Line 68: the filter left nothing, so the call returns here.
FilterRefuses(filtered, ids) == ids # {} /\ filtered = <<>>

\* A swarm_search that runs its iterations whatever the candidates are.
SwarmSearchAlwaysIterates(d, chunks) ==
  {<<d, new, SeqMaxOf(new, IF dimensions # d THEN 0 ELSE global_best_score)>> :
     new \in SwarmRuns(EnsureInitialized(d))}

\* swarm_search(query_embedding, chunks) for an embedding of d dimensions: the
\* swarm is (re)initialised for d first; with no chunks the search returns
\* there, otherwise its iterations run.  What is left is the dimension, the
\* agents' best scores and the global best score.
SwarmSearchAfter(d, chunks) ==
  LET floor == IF dimensions # d THEN 0 ELSE global_best_score
  IN IF chunks = <<>> THEN {<<d, EnsureInitialized(d), floor>>}
     ELSE {<<d, new, SeqMaxOf(new, floor)>> : new \in SwarmRuns(EnsureInitialized(d))}

\* initialize_swarm, lines 42-48: the specialization of the agent with agent_id i.
SpecializationOf(i) ==
  IF 10 * i < 6 * NumAgents THEN "explorer"
  ELSE IF 10 * i < 9 * NumAgents THEN "exploiter"
  ELSE "scout"

\* initialize_swarm for vectors of d dimensions.
InitialPopulation(d) ==
  [i \in 1..NumAgents |-> [specialization |-> SpecializationOf(i - 1), dim |-> d]]

\* An initialisation that keeps the pheromone map.
SwarmStartKeepsTrails(d) ==
  IF dimensions # d
  THEN [agents |-> InitialAgents, global_best_score |-> 0, global_best_position |-> "None",
        pheromone_trails |-> pheromone_trails, population |-> InitialPopulation(d)]
  ELSE [agents |-> agents, global_best_score |-> global_best_score,
        global_best_position |-> global_best_position,
        pheromone_trails |-> pheromone_trails, population |-> population]

\* The swarm as _ensure_initialized(d) leaves it, at the start of a run.
SwarmStart(d) ==
  IF dimensions # d
  THEN [agents |-> InitialAgents, global_best_score |-> 0, global_best_position |-> "None",
        pheromone_trails |-> {}, population |-> InitialPopulation(d)]
  ELSE [agents |-> agents, global_best_score |-> global_best_score,
        global_best_position |-> global_best_position,
        pheromone_trails |-> pheromone_trails, population |-> population]

\* Lines 90-92: the iterations of a run of n after which _adapt_swarm_behavior
\* is called.
AdaptIterations(n) == {k \in 0..(n - 1) : k % AdaptEvery = 0}

\* An adaptation that converts whatever the progress is.
LateStageAlways(k, n) == TRUE

\* Lines 184-187: progress = current_iteration / total_iterations > 0.7
LateStage(k, n) == 10 * k > LateStageTenths * n

\* The adaptations of a run of n iterations that reach the loop of line 189.
ConvertingIterations(n) == {k \in AdaptIterations(n) : LateStage(k, n)}

\* Lines 189-191: each explorer becomes an exploiter or stays what it is.
Conversions(pop) ==
  {[i \in DOMAIN pop |-> IF i \in S THEN [pop[i] EXCEPT !.specialization = "exploiter"]
                          ELSE pop[i]] :
     S \in SUBSET {i \in DOMAIN pop : pop[i].specialization = "explorer"}}

\* Line 202: sorted(self.agents, key=best_score, reverse=True)[:10], as the
\* sets of agents it may select for the best scores sc.
TopAgents(sc) ==
  {S \in SUBSET DOMAIN sc :
     /\ Cardinality(S) = Min(TrailAgents, Len(sc))
     /\ \A i \in S, j \in (DOMAIN sc) \ S : sc[i] >= sc[j]}

\* The best scores the agents may have at an adaptation of a run that leads
\* from old to new.
ScoresBetween(old, new) == {mid \in SwarmRuns(old) : new \in SwarmRuns(mid)}

\* What a run of n iterations over chunks for dimension d leaves of the global
\* best position, the pheromone map and the population, when it leaves the
\* best scores new and the global best score best.
SwarmColonyAfter(d, chunks, n, new, best) ==
  LET st == SwarmStart(d)
      tops == UNION {TopAgents(mid) : mid \in ScoresBetween(st.agents, new)}
  IN IF chunks = <<>>
     THEN {<<st.global_best_position, st.pheromone_trails, st.population>>}
     ELSE {<<IF best > st.global_best_score THEN "set" ELSE st.global_best_position,
             IF AdaptIterations(n) # {} THEN st.pheromone_trails \cup top
             ELSE st.pheromone_trails,
             pop>> :
             top \in tops,
             pop \in IF ConvertingIterations(n) # {} THEN Conversions(st.population)
                     ELSE {st.population}}

\* collective_retrieve(query, chunks): an empty list is returned at once, the
\* swarm untouched.  Otherwise the swarm is (re)initialised for the dimension of
\* the query embedding, its iterations raise best scores, and the chunks come
\* back ordered by the agents' consensus scores, which depend on the agents'
\* random positions: in any order.
SwarmAfter(chunks) ==
  IF chunks = <<>> THEN {<<dimensions, agents, global_best_score>>}
  ELSE SwarmSearchAfter(EmbeddingDim, chunks)

\* Lines 54-81: the swarm stage, then the filter and its refusal.
CollectiveRetrieve ==
  /\ pc = "swarm"
  /\ invoked' = Append(invoked, "swarm")
  /\ \E after \in SwarmAfter(quantum_chunks) :
        /\ dimensions' = after[1]
        /\ agents' = after[2]
        /\ global_best_score' = after[3]
        /\ IF quantum_chunks = <<>> THEN UNCHANGED colony
           ELSE \E c \in SwarmColonyAfter(EmbeddingDim, quantum_chunks,
                                          CollectiveIterations, after[2], after[3]) :
                   /\ global_best_position' = c[1]
                   /\ pheromone_trails' = c[2]
                   /\ population' = c[3]
  /\ \E order \in Permutations_(quantum_chunks) :
        LET filtered == IF document_ids # {} THEN SelectionFilter(order, document_ids)
                        ELSE order
        IN /\ swarm_out' = order
           /\ swarm_chunks' = filtered
           /\ IF FilterRefuses(filtered, document_ids)
              THEN /\ response' = NotInSelectedResponse(query, document_ids, Len(order))
                   /\ outcome' = "returned"
                   /\ pc' = "done"
              ELSE /\ pc' = "temporal"
                   /\ UNCHANGED <<response, outcome>>
  /\ UNCHANGED <<call, concurrency, plasticity>>
  /\ UNCHANGED <<corpus, coherence, synaptic_weights, access_history,
                 reference_waves, available, query, document_ids, quantum_chunks,
                 temporal_context, best_chunks, result, exc, tiers, started>>

(***************************************************************************)
(* Stage 5: temporal causality.                                            *)
(***************************************************************************)
\* Lines 83-86: analyze_causality reports the same confidence for every input.
AnalyzeCausality ==
  /\ pc = "temporal"
  /\ invoked' = Append(invoked, "temporal")
  /\ temporal_context' = TemporalConfidence
  /\ pc' = "generate"
  /\ UNCHANGED <<aside, plasticity>>
  /\ UNCHANGED <<shared, query, document_ids, quantum_chunks, swarm_out,
                 swarm_chunks, best_chunks, result, response, outcome, exc, tiers, started>>

(***************************************************************************)
(* Stage 6: answer generation.                                             *)
(***************************************************************************)
\* _extract_sources(chunks)
ExtractSources(chunks) ==
  [i \in 1..Len(chunks) |-> [chunk_id |-> chunks[i], document_id |-> DocOf(chunks[i])]]

\* The score _select_best_chunks sorts by, for n query phrasings: the word
\* overlap with each phrasing (taken to be that of the query itself) plus twice
\* the similarity score when there is one.
BestChunkScore(q, n) ==
  [c \in ChunkIds |-> n * OverlapOf(q, c) + (IF SimOf(q, c) # 0 THEN 2 * SimOf(q, c) ELSE 0)]

\* _select_best_chunks
SelectBestChunks(q, n, chunks) ==
  IF Len(chunks) <= BestChunkLimit THEN chunks
  ELSE Take(StableSortDesc(chunks, BestChunkScore(q, n)), BestChunkLimit)

\* Twice chunk_relevance of _calculate_relevance: the overlap, averaged with the
\* similarity score when the chunk has a non-zero one.
ChunkRelevance2(q) ==
  [c \in ChunkIds |-> IF SimOf(q, c) # 0 THEN OverlapOf(q, c) + SimOf(q, c)
                      ELSE 2 * OverlapOf(q, c)]

\* _calculate_relevance(query, chunks), in hundredths.
CalculateRelevance(q, chunks) ==
  IF chunks = <<>> THEN 0
  ELSE SumOver(chunks, ChunkRelevance2(q)) \div (2 * Len(chunks))

\* The floor put at zero.
RelevanceBelowZero(rel) == rel < 0

\* Lines 91 and 280: relevance < 0.15
RelevanceTooLow(rel) == rel < RelevanceFloor

NoDocsResult(q) ==
  [answer |-> <<"no_documents", q>>, confidence |-> 0, sources |-> <<>>,
   model |-> "no-documents"]

\* A refusal that still lists a source.
InsufficientRelevanceResultWithSource(q, rel) ==
  [answer |-> <<"not_relevant", q>>, confidence |-> 0,
   sources |-> <<[chunk_id |-> 1, document_id |-> DocOf(1)]>>,
   model |-> "insufficient-relevance", relevance_score |-> rel]

\* _insufficient_relevance_response(query, relevance)
InsufficientRelevanceResult(q, rel) ==
  [answer |-> <<"not_relevant", q>>, confidence |-> 0, sources |-> <<>>,
   model |-> "insufficient-relevance", relevance_score |-> rel]

\* What the model may answer: the call fails (an API error, a timeout, an answer
\* under 20 characters), or it returns a text, of which the code looks at a
\* refusal phrase, the length, the share of its words found in the context
\* (hundredths) and the presence of a citation.
GeminiFailure ==
  [ok |-> FALSE, refusal |-> FALSE, length |-> 0, grounded |-> 0, cites |-> FALSE]

GeminiAnswer(refusal, length, grounded, cites) ==
  [ok |-> TRUE, refusal |-> refusal, length |-> length, grounded |-> grounded,
   cites |-> cites]

\* A failed call; a grounded answer with citations; an ungrounded answer; a
\* refusal phrase in a text that shares little with the context; an answer too
\* short to be kept.
GeminiOutcomes ==
  {GeminiFailure,
   GeminiAnswer(FALSE, 200, 100, TRUE),
   GeminiAnswer(FALSE, 200, 20, TRUE),
   GeminiAnswer(TRUE, 200, 20, FALSE),
   GeminiAnswer(FALSE, 40, 100, FALSE)}

\* expand_query returns the query alone, or with up to two more phrasings when
\* the model is available and answers.
ExpandedCounts == IF available THEN {1, 3} ELSE {1}

\* _calculate_confidence(answer, chunks), in hundredths.
CalculateConfidence(a) ==
  LET length_score == IF a.length < 1000 THEN Min((a.length * 100) \div 200, 100) ELSE 90
      base == (a.grounded * 50) \div 100 + (length_score * 30) \div 100
              + (IF a.cites THEN 20 ELSE 0)
  IN Min(base, GeminiCap)

\* _is_hallucination(answer, chunks)
IsHallucination(a) ==
  IF a.refusal THEN FALSE
  ELSE IF a.length < HallucinationLen THEN TRUE
  ELSE a.grounded < GroundednessFloor

GeminiResult(a, chunks) ==
  [answer |-> <<"generated">>, confidence |-> CalculateConfidence(a),
   sources |-> ExtractSources(chunks), model |-> "gemini-1.5-flash"]

\* _enhanced_extraction(query, chunks, relevance)
EnhancedExtraction(q, chunks, rel) ==
  IF RelevanceTooLow(rel) THEN InsufficientRelevanceResult(q, rel)
  ELSE [answer |-> <<"extracted", q>>, confidence |-> Min(ExtractionCap, rel * 2),
        sources |-> ExtractSources(Take(chunks, ExtractLimit)),
        model |-> "enhanced-extraction", relevance_score |-> rel]

\* Lines 68-74 of generate_answer: chunks of unselected documents are dropped.
ValidateSelection(chunks, ids) ==
  IF ids # {} THEN FilterSeq(chunks, {c \in Range(chunks) : DocOf(c) \in ids})
  ELSE chunks

\* generate_answer's best_chunks for n query phrasings.
BestChunksFor(q, chunks, ids, n) == SelectBestChunks(q, n, ValidateSelection(chunks, ids))

\* One attempt of a generation tier and how it ended.
Attempt(tier, how) == [tier |-> tier, outcome |-> how]

\* Lines 94-108: the tiers generate_answer goes through when the model answers
\* a.  The model is called when it is available; an answer that fails the
\* hallucination check ends the call with a refusal; a call that raises is
\* followed by the extraction.
GenerationTiers(q, chunks, ids, n, a) ==
  LET valid == ValidateSelection(chunks, ids)
      best == SelectBestChunks(q, n, valid)
      rel == CalculateRelevance(q, best)
      extraction == Attempt("extraction", "succeeded")
  IN IF chunks = <<>> \/ valid = <<>> \/ RelevanceTooLow(rel) THEN <<>>
     ELSE IF ~available THEN <<extraction>>
     ELSE IF ~a.ok THEN <<Attempt("primary", "failed"), extraction>>
     ELSE IF IsHallucination(a) THEN <<Attempt("primary", "ungrounded")>>
     ELSE <<Attempt("primary", "succeeded")>>

\* generate_answer(query, chunks, selected_document_ids) when the model answers a.
GenerateAnswer(q, chunks, ids, n, a) ==
  LET valid == ValidateSelection(chunks, ids)
      best == SelectBestChunks(q, n, valid)
      rel == CalculateRelevance(q, best)
  IN IF chunks = <<>> \/ valid = <<>> THEN NoDocsResult(q)
     ELSE IF RelevanceTooLow(rel) THEN InsufficientRelevanceResult(q, rel)
     ELSE IF available /\ a.ok
          THEN IF IsHallucination(a) THEN InsufficientRelevanceResult(q, rel)
               ELSE GeminiResult(a, best)
     ELSE EnhancedExtraction(q, best, rel)

(***************************************************************************)
(* Confidence fusion and the responses of the last step.                   *)
(***************************************************************************)
\* result.get(key, default)
DictGet(d, key, default) == IF key \in DOMAIN d THEN d[key] ELSE default

\* The fusion with the raw compression ratio, not divided by 80.
CombinedConfidenceRawRatio(coh, mem, ratio, cons, temp, gen) ==
  coh * WCoherence + mem * WMemory + ratio * 100 * WCompression
  + cons * WConsensus + temp * WTemporal + gen * WGeneration

\* The fusion with the weights of memory strength and consensus exchanged.
CombinedConfidenceSwapped(coh, mem, ratio, cons, temp, gen) ==
  coh * WCoherence + mem * WConsensus + (ratio * 100 * WCompression) \div CompressionNorm
  + cons * WMemory + temp * WTemporal + gen * WGeneration

\* Lines 105-112, in units of 1/10000.
CombinedConfidence(coh, mem, ratio, cons, temp, gen) ==
  coh * WCoherence + mem * WMemory + (ratio * 100 * WCompression) \div CompressionNorm
  + cons * WConsensus + temp * WTemporal + gen * WGeneration

\* Lines 94-102: the refusal is returned as it is.
RefusalResponse(res) ==
  [answer |-> res.answer, sources |-> res.sources,
   query_type |-> "insufficient-information", confidence |-> 0,
   metadata |-> DictGet(res, "metadata", <<>>)]

\* The check of line 94 left out: every result is fused.
IsRefusalNever(res) == FALSE

\* Line 94: result['confidence'] == 0.0
IsRefusal(res) == res.confidence = 0

\* A response that withholds the answer when the consensus is below its
\* default.
FusedResponseGated(res, coh, mem, ratio, cons, temp) ==
  [answer |-> IF cons < DefaultConsensus THEN <<"withheld">> ELSE res.answer,
   sources |-> IF cons < DefaultConsensus THEN <<>> ELSE res.sources,
   query_type |-> IF cons < DefaultConsensus THEN "insufficient-information"
                  ELSE "6-tech-enhanced",
   confidence |-> CombinedConfidence(coh, mem, ratio, cons, temp, res.confidence),
   metadata |-> <<<<"quantum_coherence", coh>>,
                  <<"neuromorphic_strength", mem>>,
                  <<"swarm_consensus", cons>>,
                  <<"temporal_confidence", temp>>,
                  <<"relevance_score", DictGet(res, "relevance_score", 0)>>>>]

\* Lines 118-130, for the coherence, memory strength, compression ratio,
\* consensus and temporal confidence read there.
FusedResponse(res, coh, mem, ratio, cons, temp) ==
  [answer |-> res.answer, sources |-> res.sources, query_type |-> "6-tech-enhanced",
   confidence |-> CombinedConfidence(coh, mem, ratio, cons, temp, res.confidence),
   metadata |-> <<<<"quantum_coherence", coh>>,
                  <<"neuromorphic_strength", mem>>,
                  <<"swarm_consensus", cons>>,
                  <<"temporal_confidence", temp>>,
                  <<"relevance_score", DictGet(res, "relevance_score", 0)>>>>]

\* Lines 118-130
EnhancedResponse(res, temp) ==
  FusedResponse(res, coherence, MemoryStrength(synaptic_weights),
                CompressionRatio(reference_waves), Consensus(agents), temp)

\* Lines 88-130: generate_answer, the refusal check, the fusion, the return.
Generate ==
  /\ pc = "generate"
  /\ invoked' = Append(invoked, "generate")
  /\ \E a \in (IF available THEN GeminiOutcomes ELSE {GeminiFailure}), n \in ExpandedCounts :
        LET res == GenerateAnswer(query, swarm_chunks, document_ids, n, a)
        IN /\ best_chunks' = BestChunksFor(query, swarm_chunks, document_ids, n)
           /\ result' = res
           /\ tiers' = GenerationTiers(query, swarm_chunks, document_ids, n, a)
           /\ response' = IF IsRefusal(res) THEN RefusalResponse(res)
                          ELSE EnhancedResponse(res, temporal_context)
  /\ outcome' = "returned"
  /\ pc' = "done"
  /\ UNCHANGED <<aside, plasticity>>
  /\ UNCHANGED <<shared, query, document_ids, quantum_chunks, swarm_out,
                 swarm_chunks, temporal_context, exc, started>>

(***************************************************************************)
(* Exceptions.                                                             *)
(***************************************************************************)
\* What a stage may raise: the database or the embedding model fails, a value
\* is malformed.  All are subclasses of Exception.
StageErrors == {"ConnectionError", "ValueError"}

StagePcs == {"quantum", "memory", "holographic", "swarm", "temporal", "generate"}

\* A handler that catches ValueError alone.
CaughtValueErrorOnly(e) == e = "ValueError"

\* Line 132: except Exception
CaughtByHandler(e) == e \in StageErrors

\* Lines 137-142
ErrorResponse(e) ==
  [answer |-> <<"error", e>>, sources |-> <<>>, query_type |-> "error",
   confidence |-> 0, metadata |-> <<<<"None">>>>]

\* The stage at pc raises e inside the try block of lines 25-131.
StageRaises(e) ==
  /\ pc \in StagePcs
  /\ invoked' = Append(invoked, pc)
  /\ exc' = e
  /\ IF CaughtByHandler(e)
     THEN /\ response' = ErrorResponse(e)
          /\ outcome' = "returned"
     ELSE /\ outcome' = "raised"
          /\ UNCHANGED response
  /\ pc' = "done"
  /\ UNCHANGED <<aside, plasticity>>
  /\ UNCHANGED <<shared, query, document_ids, quantum_chunks, swarm_out,
                 swarm_chunks, temporal_context, best_chunks, result, tiers, started>>

\* The caller has the response and the call's frame is gone; the next call
\* may begin.
Deliver ==
  /\ pc = "done"
  /\ pc' = "idle"
  /\ query' = "q_none"
  /\ document_ids' = {}
  /\ quantum_chunks' = <<>>
  /\ swarm_out' = <<>>
  /\ swarm_chunks' = <<>>
  /\ temporal_context' = 0
  /\ best_chunks' = <<>>
  /\ result' = NoResult
  /\ response' = NoResponse
  /\ outcome' = "pending"
  /\ exc' = "none"
  /\ tiers' = <<>>
  /\ invoked' = <<>>
  /\ UNCHANGED <<aside, plasticity>>
  /\ UNCHANGED <<shared, started>>

\* The vector search as a black box that may or may not honour the WHERE
\* clause: the stages after it are then on their own.
QuantumRetrieveAny ==
  \E ids \in {document_ids, {}} :
     RetrieveFrom(VectorSearch(query, ids,
                               QuantumMaxResults * CandidateFactor * FetchFactor))

Next ==
  \/ \E d \in DocIds : IngestDocument(d)
  \/ \E q \in Queries, ids \in SUBSET DocIds : Submit(q, ids)
  \/ QuantumRetrieve
  \/ AdaptRetrieval
  \/ Reconstruct
  \/ CollectiveRetrieve
  \/ AnalyzeCausality
  \/ Generate
  \/ \E e \in StageErrors : StageRaises(e)
  \/ Deliver

Spec == Init /\ [][Next]_vars

NextOpen ==
  \/ \E d \in DocIds : IngestDocument(d)
  \/ \E q \in Queries, ids \in SUBSET DocIds : Submit(q, ids)
  \/ QuantumRetrieveAny
  \/ AdaptRetrieval
  \/ Reconstruct
  \/ CollectiveRetrieve
  \/ AnalyzeCausality
  \/ Generate
  \/ \E e \in StageErrors : StageRaises(e)
  \/ Deliver

\* The pipeline with the vector search as a black box.
SpecOpen == Init /\ [][NextOpen]_vars

(***************************************************************************)
(* The pipeline when an external call may never respond.                   *)
(***************************************************************************)
\* The stages that await an external call with no timeout around it: the
\* vector search (conn.fetch), the persistence of a weight (conn.execute) and
\* the model calls of generation (generate_content).
ExternalStages == {"quantum", "memory", "generate"}

\* The external call of the stage at pc never responds: nothing bounds the
\* await, so the task stays where it is.
ExternalCallHangs ==
  /\ pc \in ExternalStages
  /\ pc = "generate" => available
  /\ invoked' = Append(invoked, pc)
  /\ pc' = "awaiting"
  /\ UNCHANGED <<aside, plasticity>>
  /\ UNCHANGED <<shared, query, document_ids, quantum_chunks, swarm_out, swarm_chunks,
                 temporal_context, best_chunks, result, response, outcome, exc, tiers,
                 started>>

NextLive ==
  \/ Next
  \/ ExternalCallHangs

\* The stages after retrieval.
LaterStageStep ==
  \/ AdaptRetrieval
  \/ Reconstruct
  \/ CollectiveRetrieve
  \/ AnalyzeCausality
  \/ Generate

\* A stage whose awaits have all completed goes on: the event loop resumes a
\* task that is ready.  For the retrieval stage this is WF_vars(QuantumRetrieve)
\* with ENABLED <<QuantumRetrieve>>_vars written out as pc = "quantum".
StageFairness ==
  /\ WF_vars(LaterStageStep)
  /\ []<>(pc # "quantum") \/ []<><<QuantumRetrieve>>_vars

SpecLive == Init /\ [][NextLive]_vars /\ StageFairness

(***************************************************************************)
(* The usage-adaptive memory under tasks that interleave at its awaits.    *)
(* Each task is a process_enhanced_query at its memory stage.  The event   *)
(* loop runs one task until it suspends; the only awaits of the stage that *)
(* suspend are those of _persist_synapse on the pool's connection.         *)
(***************************************************************************)
\* Everything the memory stage leaves alone.
outside == <<corpus, coherence, reference_waves, dimensions, agents, global_best_score,
             available, pc, locals, started, call, pg_pool, colony>>

\* a, a + 1, ..., b
Block(a, b) == [i \in 1..(b - a + 1) |-> a + i - 1]

\* The chunk lists the tasks pass: the first chunks of the corpus, the first
\* chunk with four new ones, the first chunk with the one that makes the number
\* of known chunks a multiple of the decay period, and no chunk.
WarmUp == Block(1, TouchLimit)
WorkloadA == <<1>> \o Block(TouchLimit + 1, DecayPeriod - 1)
WorkloadB == <<1, DecayPeriod>>
NoChunks == <<>>

\* The calls a task makes, one after the other.
Programs ==
  [A |-> {<<WarmUp>>, <<WarmUp, WorkloadA>>},
   B |-> {<<>>, <<NoChunks>>, <<WorkloadB>>}]

\* What conn.execute does when the store is there: it succeeds or it raises.
PersistOutcomes == {"ok", "raises"}

\* The process has started with an empty corpus and the tasks have the
\* programs of progs before them.
MemoryInit(progs) ==
  /\ corpus = {}
  /\ coherence = CoherenceInit
  /\ synaptic_weights = EmptyDict
  /\ access_history = EmptyDict
  /\ reference_waves = {}
  /\ dimensions = 0
  /\ agents = <<>>
  /\ global_best_score = 0
  /\ available = TRUE
  /\ pc = "idle"
  /\ query = "q_none"
  /\ document_ids = {}
  /\ quantum_chunks = <<>>
  /\ swarm_out = <<>>
  /\ swarm_chunks = <<>>
  /\ temporal_context = 0
  /\ best_chunks = <<>>
  /\ result = NoResult
  /\ response = NoResponse
  /\ outcome = "pending"
  /\ exc = "none"
  /\ tiers = <<>>
  /\ invoked = <<>>
  /\ started = 0
  /\ call = NoCall
  /\ association_matrix = EmptyDict
  /\ recent = {}
  /\ key_order = <<>>
  /\ global_best_position = "None"
  /\ pheromone_trails = {}
  /\ population = <<>>
  /\ pg_pool \in {"absent"} \cup PersistOutcomes
  /\ tasks \in {f \in [Tasks -> {[IdleTask EXCEPT !.todo = p] :
                                     p \in UNION {progs[t] : t \in Tasks}}] :
                  \A t \in Tasks : f[t].todo \in progs[t]}
  /\ running = "none"

InitMemory == MemoryInit(Programs)

\* A handler that lets the store's exception through.
SwallowedOnSuccessOnly(how) == how = "ok"

\* _persist_synapse, lines 94-107: try ... except Exception: pass.
Swallowed(how) == how \in PersistOutcomes

\* The call of task record a is over.
Finish(a, status, e) ==
  [a EXCEPT !.pc = "idle", !.todo = Tail(a.todo), !.status = status, !.exc = e]

\* adapt_retrieval after strengthen_synapse of chunk a.i, lines 124-131: the
\* next chunk, or the decay pass over list(synaptic_weights.keys()) when the
\* number of known chunks is a multiple of the decay period, or the return.
NextAfterChunk(a, h, o) ==
  IF a.i < Len(a.chunks) THEN [a EXCEPT !.pc = "strengthen", !.i = a.i + 1]
  ELSE IF Cardinality(DOMAIN h) % DecayPeriod = 0 /\ o # <<>>
       THEN [a EXCEPT !.pc = "decay", !.keys = o, !.k = 1]
       ELSE Finish(a, "returned", "none")

\* apply_memory_decay after key a.k: the next key of the list, or the return.
NextAfterKey(a) ==
  IF a.k < Len(a.keys) THEN [a EXCEPT !.pc = "decay", !.k = a.k + 1]
  ELSE Finish(a, "returned", "none")

\* The task the loop runs after t has come to record a without suspending.
StillRunning(t, a) == IF a.pc = "idle" THEN "none" ELSE t

\* Task t calls adapt_retrieval with the next list of its program.
BeginAdapt(t) ==
  LET a == tasks[t]
      fresh == [IdleTask EXCEPT !.todo = a.todo]
  IN /\ running = "none"
     /\ a.pc = "idle"
     /\ a.todo # <<>>
     /\ IF Head(a.todo) = <<>>
        THEN /\ tasks' = [tasks EXCEPT ![t] = Finish(fresh, "returned", "none")]
             /\ running' = "none"
        ELSE /\ tasks' = [tasks EXCEPT ![t] = [fresh EXCEPT !.pc = "strengthen",
                                                            !.chunks = Take(Head(a.todo), TouchLimit),
                                                            !.i = 1]]
             /\ running' = t
     /\ UNCHANGED <<outside, synaptic_weights, access_history, plasticity>>

\* strengthen_synapse, lines 27-36, up to the await of _persist_synapse; without
\* a store that await returns at once and lines 42 and on follow.
Strengthen(t) ==
  LET a == tasks[t]
      c == a.chunks[a.i]
      h1 == StrengthenHistory(synaptic_weights, access_history, c)
      o1 == StrengthenOrder(key_order, synaptic_weights, c)
      a1 == [a EXCEPT !.strengthened = @ + 1]
      a2 == NextAfterChunk([a1 EXCEPT !.associated = @ + 1], h1, o1)
  IN /\ running = t
     /\ a.pc = "strengthen"
     /\ synaptic_weights' = StrengthenWeights(synaptic_weights, c)
     /\ access_history' = h1
     /\ key_order' = o1
     /\ recent' = recent \cup {c}
     /\ IF pg_pool # "absent"
        THEN /\ tasks' = [tasks EXCEPT ![t] = [a1 EXCEPT !.pc = "persist_strengthen"]]
             /\ running' = "none"
             /\ UNCHANGED association_matrix
        ELSE /\ association_matrix' =
                  UpdateAssociations(association_matrix, h1, recent \cup {c}, c)
             /\ tasks' = [tasks EXCEPT ![t] = a2]
             /\ running' = StillRunning(t, a2)
     /\ UNCHANGED outside

\* The await of line 39 is over, the store having answered; then line 42.
PersistReturns(t) ==
  LET a == tasks[t]
      c == a.chunks[a.i]
      a2 == NextAfterChunk([a EXCEPT !.associated = @ + 1], access_history, key_order)
  IN /\ running = "none"
     /\ a.pc = "persist_strengthen"
     /\ IF Swallowed(pg_pool)
        THEN /\ association_matrix' =
                  UpdateAssociations(association_matrix, access_history, recent, c)
             /\ tasks' = [tasks EXCEPT ![t] = a2]
             /\ running' = StillRunning(t, a2)
        ELSE /\ tasks' = [tasks EXCEPT ![t] = Finish(a, "raised", "PersistenceError")]
             /\ running' = "none"
             /\ UNCHANGED association_matrix
     /\ UNCHANGED <<outside, synaptic_weights, access_history, recent, key_order>>

\* exp(-decay_rate * hours_since_access) for chunk c: 1 for a chunk accessed
\* inside the window, less for one whose last access is long ago.
FactorsOf(c) == IF c \in recent THEN {100} ELSE DecayFactors \ {100}

\* Lines 68-77 for one key: KeyError when the key has no weight any more.
DecayKey(w, h, c, f) ==
  IF c \notin DOMAIN h THEN w
  ELSE IF (w[c] * f) \div 100 < PruneFloor THEN [x \in (DOMAIN w) \ {c} |-> w[x]]
  ELSE Put(w, c, (w[c] * f) \div 100)

\* apply_memory_decay for the key a.k of the list taken at line 67, up to the
\* await of _persist_synapse, which returns at once without a store and for a
\* key that was deleted.
Decay(t) ==
  LET a == tasks[t]
      c == a.keys[a.k]
  IN /\ running = t
     /\ a.pc = "decay"
     /\ IF c \in DOMAIN access_history /\ c \notin DOMAIN synaptic_weights
        THEN /\ tasks' = [tasks EXCEPT ![t] = Finish(a, "raised", "KeyError")]
             /\ running' = "none"
             /\ UNCHANGED <<synaptic_weights, key_order>>
        ELSE \E f \in FactorsOf(c) :
               LET w1 == DecayKey(synaptic_weights, access_history, c, f)
                   a2 == NextAfterKey(a)
               IN /\ synaptic_weights' = w1
                  /\ key_order' = FilterSeq(key_order, DOMAIN w1)
                  /\ IF pg_pool # "absent" /\ c \in DOMAIN w1
                     THEN /\ tasks' = [tasks EXCEPT ![t] = [a EXCEPT !.pc = "persist_decay"]]
                          /\ running' = "none"
                     ELSE /\ tasks' = [tasks EXCEPT ![t] = a2]
                          /\ running' = StillRunning(t, a2)
     /\ UNCHANGED <<outside, access_history, association_matrix, recent>>

\* The await of line 81 is over, the store having answered.
PersistDecayReturns(t) ==
  LET a == tasks[t]
      a2 == NextAfterKey(a)
  IN /\ running = "none"
     /\ a.pc = "persist_decay"
     /\ IF Swallowed(pg_pool)
        THEN /\ tasks' = [tasks EXCEPT ![t] = a2]
             /\ running' = StillRunning(t, a2)
        ELSE /\ tasks' = [tasks EXCEPT ![t] = Finish(a, "raised", "PersistenceError")]
             /\ running' = "none"
     /\ UNCHANGED <<outside, synaptic_weights, access_history, plasticity>>

\* Task t is cancelled while it is suspended in _persist_synapse: CancelledError
\* is no Exception, so neither line 105 nor the orchestrator's handler catches
\* it and the task ends there.  One cancellation is considered.
Cancel(t) ==
  /\ running = "none"
  /\ \A u \in Tasks : tasks[u].status # "cancelled"
  /\ tasks[t].pc \in {"persist_strengthen", "persist_decay"}
  /\ tasks' = [tasks EXCEPT ![t] = [@ EXCEPT !.pc = "idle", !.todo = <<>>,
                                            !.status = "cancelled",
                                            !.exc = "CancelledError"]]
  /\ UNCHANGED <<outside, synaptic_weights, access_history, plasticity, running>>

\* Between calls, so much time passes that no access is inside the window.
TimePasses ==
  /\ running = "none"
  /\ \A t \in Tasks : tasks[t].pc = "idle"
  /\ recent # {}
  /\ recent' = {}
  /\ UNCHANGED <<outside, synaptic_weights, access_history, association_matrix,
                 key_order, tasks, running>>

NextMemory ==
  \/ \E t \in Tasks : BeginAdapt(t)
  \/ \E t \in Tasks : Strengthen(t)
  \/ \E t \in Tasks : PersistReturns(t)
  \/ \E t \in Tasks : Decay(t)
  \/ \E t \in Tasks : PersistDecayReturns(t)
  \/ \E t \in Tasks : Cancel(t)
  \/ TimePasses

SpecMemory == InitMemory /\ [][NextMemory]_vars

\* One task alone, whose second list makes the number of known chunks a
\* multiple of the decay period, so that its call ends with a decay pass.
WorkloadC == Block(TouchLimit + 1, DecayPeriod)

SoloPrograms ==
  [A |-> {<<WarmUp>>, <<NoChunks, WorkloadB>>, <<WarmUp, WorkloadC>>},
   B |-> {<<>>}]

InitSolo == MemoryInit(SoloPrograms)

\* The calls of a task that nothing cancels.
NextSolo ==
  \/ \E t \in Tasks : BeginAdapt(t)
  \/ \E t \in Tasks : Strengthen(t)
  \/ \E t \in Tasks : PersistReturns(t)
  \/ \E t \in Tasks : Decay(t)
  \/ \E t \in Tasks : PersistDecayReturns(t)
  \/ TimePasses

SpecSolo == InitSolo /\ [][NextSolo]_vars

(***************************************************************************)
(* Direct calls of the service methods, outside a query.                   *)
(***************************************************************************)
\* Everything a direct call of the swarm leaves alone.  A direct call is made
\* by a caller that holds no result of an earlier call.
nonswarm == <<corpus, coherence, synaptic_weights, access_history, reference_waves,
              available, pc, locals, started>>

\* The candidate lists a caller may pass.
UnitLists == {SetToSeq(S) : S \in SUBSET ChunkIds}

\* The length of the query embedding: that of the embedding model in use, or
\* that of a larger model.
EmbeddingDims == {EmbeddingDim, 2 * EmbeddingDim}

SwarmState == <<dimensions, agents, global_best_score>>

\* The swarm's other fields.
ColonyState == <<global_best_position, pheromone_trails, population>>

\* The budgets a caller passes: that of collective_retrieve, the default of
\* swarm_search, and one a little above the first.
IterationBudgets == {CollectiveIterations, DefaultIterations, CollectiveIterations + 5}

\* swarm_search(query_embedding, chunks, iterations)
CallSwarmSearch(d, chunks, n) ==
  /\ call = NoCall
  /\ \E after \in SwarmSearchAfter(d, chunks), order \in Permutations_(chunks) :
        \E c \in SwarmColonyAfter(d, chunks, n, after[2], after[3]) :
           /\ dimensions' = after[1]
           /\ agents' = after[2]
           /\ global_best_score' = after[3]
           /\ global_best_position' = c[1]
           /\ pheromone_trails' = c[2]
           /\ population' = c[3]
           /\ call' = [NoCall EXCEPT !.op = "swarm_search", !.chunks = chunks, !.dim = d,
                                     !.before = SwarmState, !.colony = ColonyState,
                                     !.start = SwarmStart(d), !.iterations = n,
                                     !.adapted = IF chunks = <<>> THEN {}
                                                 ELSE AdaptIterations(n),
                                     !.converting = IF chunks = <<>> THEN {}
                                                    ELSE ConvertingIterations(n),
                                     !.ret = order]
  /\ UNCHANGED <<nonswarm, plasticity, concurrency>>

\* collective_retrieve(query, chunks)
CallCollectiveRetrieve(chunks) ==
  /\ call = NoCall
  /\ \E after \in SwarmAfter(chunks), order \in Permutations_(chunks) :
        /\ dimensions' = after[1]
        /\ agents' = after[2]
        /\ global_best_score' = after[3]
        /\ IF chunks = <<>>
           THEN /\ UNCHANGED colony
                /\ call' = [NoCall EXCEPT !.op = "collective_retrieve", !.chunks = chunks,
                                          !.dim = EmbeddingDim, !.before = SwarmState,
                                          !.colony = ColonyState, !.ret = order]
           ELSE \E c \in SwarmColonyAfter(EmbeddingDim, chunks, CollectiveIterations,
                                          after[2], after[3]) :
                   /\ global_best_position' = c[1]
                   /\ pheromone_trails' = c[2]
                   /\ population' = c[3]
                   /\ call' = [NoCall EXCEPT !.op = "collective_retrieve",
                                             !.chunks = chunks, !.dim = EmbeddingDim,
                                             !.before = SwarmState,
                                             !.colony = ColonyState,
                                             !.start = SwarmStart(EmbeddingDim),
                                             !.iterations = CollectiveIterations,
                                             !.adapted = AdaptIterations(CollectiveIterations),
                                             !.converting =
                                               ConvertingIterations(CollectiveIterations),
                                             !.ret = order]
  /\ UNCHANGED <<nonswarm, plasticity, concurrency>>

\* get_consensus()
CallGetConsensus ==
  /\ call = NoCall
  /\ call' = [NoCall EXCEPT !.op = "get_consensus", !.before = SwarmState,
                            !.colony = ColonyState, !.value = Consensus(agents)]
  /\ UNCHANGED <<shared, pc, locals, started, plasticity, concurrency, colony>>

\* np.argsort(scores)[::-1]: the default sort kind is not stable, so chunks of
\* equal score come out in an order the build decides; on short arrays it is
\* the reverse of the input order (ArgsortReversed), which is one of these.
ArgsortReversedOutcomes(s, key) ==
  {p \in Permutations_(s) : \A i \in 1..(Len(p) - 1) : key[p[i]] >= key[p[i + 1]]}

\* SimpleRetriever._hybrid_rerank(query, chunks, top_k)
HybridRerankOutcomes(q, chunks, top_k) ==
  IF Len(chunks) <= top_k THEN {chunks}
  ELSE {Take(p, top_k) : p \in ArgsortReversedOutcomes(chunks, CombinedScore(q, chunks))}

\* SimpleRetriever.retrieve(query, max_results, document_ids) over the rows.
SimpleRetrieveOutcomes(q, rows, max_results) ==
  IF rows = <<>> THEN {<<>>} ELSE HybridRerankOutcomes(q, rows, max_results)

\* The limits a caller may pass.
Limits == 1..MaxChunks

\* A direct call of SimpleRetriever.retrieve.
CallSimpleRetrieve(q, max_results, ids) ==
  LET rows == VectorSearch(q, ids, max_results * FetchFactor)
  IN /\ call = NoCall
     /\ \E out \in SimpleRetrieveOutcomes(q, rows, max_results) :
           call' = [NoCall EXCEPT !.op = "simple_retrieve", !.query = q, !.chunks = rows,
                                  !.limit = max_results, !.ret = out]
     /\ UNCHANGED <<shared, pc, locals, started, plasticity, concurrency, colony>>

\* What the relationship store does: there is no driver, the graph query
\* raises, it answers, or it answers and the fetch of the related chunks from
\* the relational store raises.
GraphOutcomes == {"absent", "raises", "answers", "fetch_raises"}

\* The rows of the SELECT of lines 122-134 for the related chunk ids, in the
\* order the store returns them.
RelatedRows(related, ids) ==
  Permutations_(SetToSeq({c \in related : /\ DocOf(c) \in corpus
                                          /\ (ids # {} => DocOf(c) \in ids)}))

\* A join that puts the related chunks in front.
GraphExpansionRelatedFirst(chunks, rows) == rows \o chunks

\* The initial candidates come first, the related chunks after them.
GraphExpansionJoin(chunks, rows) == chunks \o rows

\* ComplexRetriever._graph_expansion(chunks, query, document_ids) when the
\* store does g and names the chunks related: what it may return.
GraphExpansionOutcomes(chunks, ids, g, related) ==
  IF g \in {"absent", "raises"} \/ related = {} THEN {chunks}
  ELSE {GraphExpansionJoin(chunks, rows) : rows \in RelatedRows(related, ids)}

\* The chunk ids the graph query may name for the initial candidates.
RelatedIds(chunks, g) ==
  IF g = "answers" /\ chunks # <<>> THEN SUBSET ChunkIds ELSE {{}}

\* A direct call of ComplexRetriever.retrieve.  The fetch of the related
\* chunks is outside the try block, so its failure leaves the call.
CallComplexRetrieve(q, max_results, ids, g) ==
  LET rows == VectorSearch(q, ids, CandidateFactor * max_results * FetchFactor)
  IN /\ call = NoCall
     /\ \E initial \in SimpleRetrieveOutcomes(q, rows, CandidateFactor * max_results) :
           IF g = "fetch_raises"
           THEN call' = [NoCall EXCEPT !.op = "complex_retrieve", !.query = q,
                                       !.chunks = initial, !.limit = max_results,
                                       !.graph = g, !.raised = TRUE]
           ELSE \E related \in RelatedIds(initial, g) :
                \E expanded \in GraphExpansionOutcomes(initial, ids, g, related) :
                   call' = [NoCall EXCEPT !.op = "complex_retrieve", !.query = q,
                                          !.chunks = initial, !.limit = max_results,
                                          !.graph = g, !.expanded = expanded,
                                          !.ret = Take(expanded, max_results)]
     /\ UNCHANGED <<shared, pc, locals, started, plasticity, concurrency, colony>>

\* The caller is done with what the call returned; the services keep what the
\* call left in them.
CallReturned ==
  /\ call # NoCall
  /\ call' = NoCall
  /\ UNCHANGED <<shared, pc, locals, started, plasticity, concurrency, colony>>

\* Direct calls of the swarm reranker.
NextSwarm ==
  \/ \E d \in EmbeddingDims, chunks \in UnitLists, n \in IterationBudgets :
        CallSwarmSearch(d, chunks, n)
  \/ \E chunks \in UnitLists : CallCollectiveRetrieve(chunks)
  \/ CallGetConsensus
  \/ CallReturned

SpecSwarm == Init /\ [][NextSwarm]_vars

\* Direct calls of the retrievers.
NextRetrievers ==
  \/ \E q \in Queries, k \in Limits, ids \in SUBSET DocIds : CallSimpleRetrieve(q, k, ids)
  \/ \E q \in Queries, k \in Limits, ids \in SUBSET DocIds, g \in GraphOutcomes :
        CallComplexRetrieve(q, k, ids, g)
  \/ CallReturned

SpecRetrievers == Init /\ [][NextRetrievers]_vars

(***************************************************************************)
(* Direct calls of adapt_retrieval, one after the other, without end.      *)
(***************************************************************************)
\* The chunk lists of the direct calls: no chunk, the first chunks of the
\* corpus, the chunks that make the number of known chunks a multiple of the
\* decay period, and a list one longer than the touch limit.
AdaptLists == {NoChunks, WarmUp, WorkloadC, Block(1, TouchLimit + 1)}

\* The direct calls made one after the other with any time between them.
AdaptCalls == MaxQueries + 1

\* The longest access history that is told from a longer one.
HistoryCap == AdaptCalls

\* A history of more than HistoryCap accesses is recorded as one of HistoryCap.
Saturated(h) == [c \in DOMAIN h |-> Min(h[c], HistoryCap)]

\* The forgetting factors a decay pass may find: none for the chunks of rec,
\* which have just been accessed, and for the others the factor of the time
\* that has passed since the accesses before.
DecayChoices(w, rec) ==
  {[c \in DOMAIN w |-> IF c \in rec THEN 100 ELSE e] : e \in DecayFactors \ {100}}

\* Line 128: if len(self.access_history) % 10 == 0, after a non-empty list.
DecayDue(h, chunks) == chunks # <<>> /\ Cardinality(DOMAIN h) % DecayPeriod = 0

\* Line 124: for chunk in chunks[:5]
Touched(chunks) == Take(chunks, TouchLimit)

\* adapt_retrieval(query, chunks), lines 118-131, with no store configured.
AdaptRetrievalCall(chunks) ==
  /\ call = NoCall
  /\ LET touched == Touched(chunks)
         after == StrengthenAll(synaptic_weights, access_history, touched)
         due == DecayDue(after[2], chunks)
         rec == recent \cup Range(touched)
     IN /\ access_history' = Saturated(after[2])
        /\ IF due
           THEN \E f \in DecayChoices(after[1], rec) :
                   synaptic_weights' = ApplyMemoryDecay(after[1], after[2], f)
           ELSE synaptic_weights' = after[1]
        /\ association_matrix' = AssociateAll(association_matrix, synaptic_weights,
                                              access_history, recent, touched)
        /\ recent' = rec
        /\ key_order' = FilterSeq(OrderAll(key_order, synaptic_weights, touched),
                                  DOMAIN synaptic_weights')
        /\ call' = [NoCall EXCEPT !.op = "adapt_retrieval", !.chunks = chunks,
                                  !.before = <<synaptic_weights, access_history,
                                               association_matrix>>,
                                  !.ret = chunks, !.decayed = due]
  /\ UNCHANGED <<corpus, coherence, reference_waves, dimensions, agents,
                 global_best_score, available, pc, locals, concurrency, colony>>

\* One of a few calls, with any time between them.
CallAdaptRetrieval(chunks) ==
  /\ started < AdaptCalls
  /\ started' = started + 1
  /\ AdaptRetrievalCall(chunks)

NextAdapt ==
  \/ \E chunks \in AdaptLists : CallAdaptRetrieval(chunks)
  \/ TimePasses
  \/ CallReturned

SpecAdapt == Init /\ [][NextAdapt]_vars

\* One of a burst of calls without end, all of them inside the window.
CallAdaptRetrievalAgain(chunks) ==
  /\ AdaptRetrievalCall(chunks)
  /\ UNCHANGED started

\* The lists of a burst: none of them is empty.
BurstLists == AdaptLists \ {NoChunks}

NextBurst ==
  \/ \E chunks \in BurstLists : CallAdaptRetrievalAgain(chunks)
  \/ CallReturned

\* The caller goes on calling, and every call returns. A call can be made
\* exactly when none is open, so weak fairness for the calls reads: again and
\* again a call is open or a call is made.
BurstFairness ==
  /\ WF_vars(CallReturned)
  /\ \/ []<>(call # NoCall)
     \/ []<><<\E chunks \in BurstLists : CallAdaptRetrievalAgain(chunks)>>_vars

SpecBurst == Init /\ [][NextBurst]_vars /\ BurstFairness

(***************************************************************************)
(* Properties of process_enhanced_query.                                   *)
(***************************************************************************)
Returned == pc = "done" /\ outcome = "returned"

\* The documents the sources of the response are attributed to.
SourceDocs == {response.sources[i].document_id : i \in DOMAIN response.sources}

\* C1: with a non-empty document selection, whatever the retrieval returned,
\* whatever the memory and the swarm held and whatever the generation did, the
\* chunks that leave the filter, the chunks the answer is generated from and
\* the sources of the response all belong to selected documents, and every
\* source carries the document of its chunk.
C1_SourcesWithinSelection ==
  document_ids # {} =>
    /\ \A c \in Range(swarm_chunks) \cup Range(best_chunks) : DocOf(c) \in document_ids
    /\ SourceDocs \subseteq document_ids
    /\ \A i \in DOMAIN response.sources :
          /\ response.sources[i].chunk_id \in Range(swarm_out)
          /\ response.sources[i].document_id = DocOf(response.sources[i].chunk_id)

\* A query with a selection got sources although the retrieval had also
\* returned chunks of unselected documents.
C1_Witness ==
  /\ Returned
  /\ document_ids # {}
  /\ response.sources # <<>>
  /\ \E c \in Range(swarm_out) : DocOf(c) \notin document_ids

\* C2: when the swarm stage returned candidates and the selection filter left
\* none of them, the call is over with the response 'not-in-selected-documents',
\* confidence 0 and no sources; temporal analysis and generation did not run.
C2_FilterEmptiesTerminates ==
  (/\ document_ids # {}
   /\ swarm_out # <<>>
   /\ \A c \in Range(swarm_out) : DocOf(c) \notin document_ids)
  => /\ Returned
     /\ response.query_type = "not-in-selected-documents"
     /\ response.confidence = 0
     /\ response.sources = <<>>
     /\ "temporal" \notin Range(invoked)
     /\ "generate" \notin Range(invoked)
     /\ temporal_context = 0
     /\ result = NoResult

\* The filter removed every candidate of a query.
C2_Witness ==
  /\ Returned
  /\ document_ids # {}
  /\ swarm_out # <<>>
  /\ swarm_chunks = <<>>
  /\ response.query_type = "not-in-selected-documents"

\* The stored chunks of the selected documents and of the others.
ChunksInside == {c \in ChunkIds : DocOf(c) \in corpus /\ DocOf(c) \in document_ids}
ChunksOutside == {c \in ChunkIds : DocOf(c) \in corpus /\ DocOf(c) \notin document_ids}

\* The corpus has chunks inside and outside the selection, and every chunk
\* outside is more similar to the query than every chunk inside.
TopCandidatesOutside ==
  /\ document_ids # {}
  /\ ChunksInside # {}
  /\ ChunksOutside # {}
  /\ \A o \in ChunksOutside, i \in ChunksInside : SimOf(query, o) > SimOf(query, i)

\* C3: when the corpus has documents inside and outside the selection and the
\* candidates most similar to the query all belong to documents outside it, the
\* call that ends without an exception returns 'not-in-selected-documents'
\* with confidence 0.
C3_TopOutsideIsRefused ==
  (Returned /\ exc = "none" /\ TopCandidatesOutside)
  => /\ response.query_type = "not-in-selected-documents"
     /\ response.confidence = 0

\* C4, the state part: a call whose retrieval stage returned no chunks is over
\* with the response 'no-results', confidence 0 and no sources, and ran no
\* stage after the retrieval.
RetrievalReturnedNothing ==
  pc \notin {"idle", "quantum"} /\ quantum_chunks = <<>> /\ exc = "none"

NoResultsReturned ==
  RetrievalReturnedNothing
  => /\ Returned
     /\ response.query_type = "no-results"
     /\ response.confidence = 0
     /\ response.sources = <<>>
     /\ invoked = <<"quantum">>

\* C4, the step part: the step of the retrieval stage that finds no chunks
\* leaves the usage memory and the swarm as they were.
NoResultsStep ==
  (pc = "quantum" /\ RetrievalReturnedNothing')
  => UNCHANGED <<synaptic_weights, access_history, dimensions, agents,
                 global_best_score>>

\* C4: when retrieval returns no chunks the response is 'no-results' with
\* confidence 0 and empty sources, no later stage runs, and the usage memory
\* and the swarm are unchanged by the query.
C4_NoResults == [](NoResultsReturned) /\ [][NoResultsStep]_vars

\* A query over a non-empty corpus retrieved nothing.
C4_Witness ==
  /\ RetrievalReturnedNothing
  /\ corpus # {}
  /\ response.query_type = "no-results"

\* C5: when a stage raised an exception, the call did not raise: it returned
\* 'error' with confidence 0, no sources and an answer that carries the
\* description of the exception.
C5_ExceptionBecomesError ==
  exc # "none"
  => /\ Returned
     /\ response.query_type = "error"
     /\ response.confidence = 0
     /\ response.sources = <<>>
     /\ response.answer = <<"error", exc>>

\* A stage past the memory update raised a ConnectionError.
C5_Witness ==
  /\ Returned
  /\ exc = "ConnectionError"
  /\ Len(invoked) >= 4
  /\ response.query_type = "error"

\* The generation step computed a relevance: it had chunks to answer from.
GenerationScored == pc = "done" /\ exc = "none" /\ best_chunks # <<>>

\* C6: when the relevance of the chunks the answer is generated from is under
\* 0.15, the confidence of the response is exactly 0, whatever the diagnostics
\* of the other stages and whether the text-generation backend is available.
C6_LowRelevanceZeroConfidence ==
  (GenerationScored /\ CalculateRelevance(query, best_chunks) < 15)
  => /\ result.confidence = 0
     /\ response.confidence = 0

\* A query with chunks of relevance under 0.15 was refused while the backend
\* was available and the diagnostics were at their defaults or above.
C6_Witness ==
  /\ GenerationScored
  /\ CalculateRelevance(query, best_chunks) < 15
  /\ available
  /\ coherence > CoherenceInit
  /\ response.confidence = 0

\* The generation step returned a result.
GenerationReturned == pc = "done" /\ exc = "none" /\ "generate" \in Range(invoked)

\* C7: when generation returns a confidence of exactly 0, the response
\* carries the result's answer and sources, the result's metadata (none when
\* the result has no such key), confidence 0 and query_type
\* 'insufficient-information': the diagnostics are not fused in.
C7_RefusalPassesThrough ==
  (GenerationReturned /\ result.confidence = 0)
  => /\ response.answer = result.answer
     /\ response.sources = result.sources
     /\ response.metadata = (IF "metadata" \in DOMAIN result THEN result.metadata ELSE <<>>)
     /\ response.confidence = 0
     /\ response.query_type = "insufficient-information"

\* The model answered and the answer was rejected as ungrounded: a refusal
\* with relevance at or above the floor.
C7_Witness ==
  /\ GenerationReturned
  /\ result.confidence = 0
  /\ result.model = "insufficient-relevance"
  /\ CalculateRelevance(query, best_chunks) >= 15
  /\ response.query_type = "insufficient-information"

\* C8: the confidence of every response lies in [0, 1] (in units of 1/10000).
C8_ConfidenceInUnitInterval ==
  Returned => (response.confidence >= 0 /\ response.confidence <= 10000)

\* A fused confidence with the compression term at its maximum.
C8_Witness ==
  /\ GenerationReturned
  /\ result.confidence > 0
  /\ CompressionRatio(reference_waves) = 80
  /\ response.confidence > 8000

\* C9: the confidence of a successful response is 0.15 coherence + 0.15 memory
\* strength + 0.10 compression ratio / 80 + 0.20 consensus + 0.15 temporal
\* confidence + 0.25 generation confidence, each diagnostic being what its
\* getter reports when the response is built; the weights sum to 1.
C9_WeightedFusion ==
  (GenerationReturned /\ result.confidence > 0)
  => /\ response.confidence =
          15 * coherence + 15 * MemoryStrength(synaptic_weights)
          + (10 * 100 * CompressionRatio(reference_waves)) \div 80
          + 20 * Consensus(agents) + 15 * temporal_context + 25 * result.confidence
     /\ 15 + 15 + 10 + 20 + 15 + 25 = 100

\* A successful response after the memory strength and the consensus have both
\* moved from their defaults, to different values.
C9_Witness ==
  /\ GenerationReturned
  /\ result.confidence > 0
  /\ MemoryStrength(synaptic_weights) # DefaultStrength
  /\ Consensus(agents) # DefaultConsensus
  /\ MemoryStrength(synaptic_weights) # Consensus(agents)

\* C10: the query_type of every response is one of the six documented values.
C10_QueryTypeDocumented ==
  Returned => response.query_type \in {"simple", "complex", "no-results",
                                       "not-in-selected-documents",
                                       "insufficient-information", "error"}

\* The model call of generate_answer was made and raised, and the extraction
\* that followed produced an answer.
ExtractionAfterFailure ==
  GenerationReturned /\ available /\ result.model = "enhanced-extraction"

\* C11: when the model call fails and the extraction that follows succeeds,
\* the response has a confidence above 0 and carries a model field that names
\* the extraction.
C11_ExtractionTierInResponse ==
  ExtractionAfterFailure
  => /\ response.confidence > 0
     /\ \/ "model" \in DOMAIN response
        \/ \E i \in DOMAIN response.metadata :
              response.metadata[i] = <<"model", result.model>>

\* The place of a tier in the chain primary model, secondary model, extraction.
TierRank(tier) ==
  CASE tier = "primary" -> 1 [] tier = "secondary" -> 2 [] tier = "extraction" -> 3

\* Tier t was attempted, and ended in one of the outcomes hows.
Attempted(t, hows) ==
  \E i \in DOMAIN tiers : tiers[i].tier = t /\ tiers[i].outcome \in hows

TierOutcomes == {"succeeded", "failed", "ungrounded"}

\* C12: generation goes through its tiers in the order primary model,
\* secondary model, extraction; the secondary model is attempted exactly when
\* the primary failed or gave an ungrounded answer; the extraction is attempted
\* only after both model tiers failed; nothing is attempted after a success.
C12_FallbackChain ==
  (GenerationReturned /\ tiers # <<>>)
  => /\ \A i, j \in DOMAIN tiers : i < j => TierRank(tiers[i].tier) < TierRank(tiers[j].tier)
     /\ Attempted("secondary", TierOutcomes) <=> Attempted("primary", {"failed", "ungrounded"})
     /\ Attempted("extraction", TierOutcomes)
          => /\ Attempted("primary", {"failed", "ungrounded"})
             /\ Attempted("secondary", {"failed", "ungrounded"})
     /\ \A i \in DOMAIN tiers : tiers[i].outcome = "succeeded" => i = Len(tiers)

\* The stages of the data flow a banner of process_enhanced_query stands for:
\* quantum_retriever.retrieve is SimpleRetriever.retrieve followed by the
\* measurement of the quantum state, the swarm step is followed by the filter
\* on document_ids.
StagesOfBanner(b) ==
  CASE b = "quantum" -> <<"hybrid_retrieval", "vector_phase_rerank">>
    [] b = "memory" -> <<"usage_memory">>
    [] b = "holographic" -> <<"holographic_reconstruct">>
    [] b = "swarm" -> <<"swarm_rerank", "selection_filter">>
    [] b = "temporal" -> <<"temporal_causality">>
    [] b = "generate" -> <<"generation">>

\* The stages this call went through, in order.
RECURSIVE StagesOf(_)
StagesOf(banners) ==
  IF banners = <<>> THEN <<>>
  ELSE StagesOfBanner(Head(banners)) \o StagesOf(Tail(banners))

\* The stages of the documented data flow, up to generation.
DataFlowStages ==
  <<"hybrid_retrieval", "graph_expansion", "vector_phase_rerank", "usage_memory",
    "swarm_rerank", "selection_filter", "generation">>

\* C13: a call that reached generation went through hybrid retrieval, graph
\* expansion, vector-phase reranking, usage-adaptive memory, swarm reranking,
\* the document-selection filter and generation, in this order and none
\* skipped, each stage working on the list the one before it put out.
C13_StageOrder ==
  (pc = "done" /\ exc = "none" /\ "generate" \in Range(invoked))
  => /\ FilterSeq(StagesOf(invoked), Range(DataFlowStages)) = DataFlowStages
     /\ Range(swarm_out) = Range(quantum_chunks)
     /\ Range(swarm_chunks) \subseteq Range(swarm_out)
     /\ Range(best_chunks) \subseteq Range(swarm_chunks)

(***************************************************************************)
(* Properties of the swarm reranker called directly.                       *)
(***************************************************************************)
\* The swarm reranker was called with an empty candidate list.
EmptyCandidates ==
  call.op \in {"swarm_search", "collective_retrieve"} /\ call.chunks = <<>>

\* The agents the call found still have their best scores, and the global
\* best score is the one the call found.
BestsUnchanged ==
  /\ global_best_score = call.before[3]
  /\ \A i \in DOMAIN call.before[2] : i \in DOMAIN agents /\ agents[i] = call.before[2][i]

\* C18 (as amended): given an empty candidate list, collective_retrieve and
\* swarm_search return an empty list without raising and run no optimisation
\* iteration, in every prior swarm state.  collective_retrieve leaves the swarm
\* as it found it.  swarm_search leaves it as it found it when the swarm has
\* the dimension of the query embedding, and otherwise leaves a swarm freshly
\* initialised for that dimension: every best score and the global best are 0.
C18_EmptyCandidatesNoIteration ==
  EmptyCandidates =>
    /\ call.ret = <<>>
    /\ ~call.raised
    /\ call.op = "collective_retrieve" => SwarmState = call.before
    /\ call.op = "swarm_search" =>
         SwarmState = IF call.before[1] = call.dim THEN call.before
                      ELSE <<call.dim, InitialAgents, 0>>

\* swarm_search was given no candidates by a swarm that had learnt best scores
\* in another dimension.
C18_Witness ==
  /\ EmptyCandidates
  /\ call.op = "swarm_search"
  /\ call.before[1] # call.dim
  /\ \E i \in DOMAIN call.before[2] : call.before[2][i] > 0

\* C18 (as stated): given an empty candidate list, the swarm reranker returns
\* an empty list without raising and no agent's personal best or the global
\* best changes.
C18_EmptyCandidatesLeaveBests ==
  EmptyCandidates => call.ret = <<>> /\ ~call.raised /\ BestsUnchanged

(***************************************************************************)
(* Properties of the retrievers called directly.                           *)
(***************************************************************************)
\* The position of chunk c in the list s.
PositionIn(s, c) == CHOOSE i \in DOMAIN s : s[i] = c

\* C19: in the hybrid retriever's rerank, candidates with identical blended
\* scores appear in the output in the same relative order as in the input,
\* also when there are more candidates than the limit and the sort is applied.
C19_TiesKeepInputOrder ==
  call.op = "simple_retrieve" =>
    LET score == CombinedScore(call.query, call.chunks)
    IN \A i, j \in DOMAIN call.ret :
         (i < j /\ score[call.ret[i]] = score[call.ret[j]]) =>
            PositionIn(call.chunks, call.ret[i]) < PositionIn(call.chunks, call.ret[j])

\* Graph expansion returned a list.
ExpansionReturned == call.op = "complex_retrieve" /\ ~call.raised

\* C20: the list graph expansion returns starts with the initial candidate
\* list, unchanged and in order, the expanded chunks after it; when the
\* relationship store is absent or the graph query raises, the result is
\* exactly the initial list and no exception is raised.
C20_InitialCandidatesFirst ==
  /\ ExpansionReturned =>
       /\ Len(call.expanded) >= Len(call.chunks)
       /\ Take(call.expanded, Len(call.chunks)) = call.chunks
  /\ (call.op = "complex_retrieve" /\ call.graph \in {"absent", "raises"}) =>
       ~call.raised /\ call.expanded = call.chunks

\* The graph named related chunks and they were appended to a non-empty
\* initial list.
C20_Witness ==
  /\ ExpansionReturned
  /\ call.graph = "answers"
  /\ call.chunks # <<>>
  /\ Len(call.expanded) > Len(call.chunks)
  /\ call.expanded[Len(call.expanded)] # call.chunks[1]

(***************************************************************************)
(* Progress of process_enhanced_query.                                     *)
(***************************************************************************)
\* C15: process_enhanced_query eventually returns, also when an external call
\* (vector search, weight persistence, query expansion, model generation)
\* never responds: a query that has entered the pipeline reaches its return.
C15_EventuallyReturns == [](pc \in StagePcs => <>(pc = "done"))

(***************************************************************************)
(* Properties of the usage-adaptive memory under interleaved tasks.        *)
(***************************************************************************)
\* C14: when tasks interleave at the awaits of the memory stage, every
\* read-modify-write of the weight table behaves as under a single writer and
\* no query fails: a decay pass never operates on a weight that the decay pass
\* of another task has already pruned.
C14_SingleWriter == \A t \in Tasks : tasks[t].exc # "KeyError"

\* C16: a task cancelled at an await of the memory stage leaves all of the
\* stage's side effects or none: never only some of its chunks strengthened,
\* never a weight raised without its association update.
C16_CancelAllOrNothing ==
  \A t \in Tasks :
     tasks[t].status = "cancelled" =>
        /\ tasks[t].strengthened \in {0, Len(tasks[t].chunks)}
        /\ tasks[t].associated = tasks[t].strengthened

\* strengthen_synapse(c) run to its end over the memory (w, h, m, rec) with the
\* store doing what store says: the memory after it, and whether it raised.
StrengthenSynapse(w, h, m, rec, c, store) ==
  LET h1 == StrengthenHistory(w, h, c)
      done == store = "absent" \/ Swallowed(store)
  IN [w |-> StrengthenWeights(w, c), h |-> h1,
      m |-> IF done THEN UpdateAssociations(m, h1, rec \cup {c}, c) ELSE m,
      raised |-> ~done]

\* apply_memory_decay run to its end over the keys, every key decaying by the
\* factor f: the weights after it, and whether it raised.
RECURSIVE MemoryDecay(_, _, _, _, _)
MemoryDecay(w, h, keys, f, store) ==
  IF keys = <<>> THEN [w |-> w, raised |-> FALSE]
  ELSE LET c == Head(keys)
           w1 == DecayKey(w, h, c, f)
       IN IF store # "absent" /\ c \in DOMAIN w1 /\ ~Swallowed(store)
          THEN [w |-> w1, raised |-> TRUE]
          ELSE MemoryDecay(w1, h, Tail(keys), f, store)

\* C17: strengthen_synapse and apply_memory_decay leave the same weights,
\* histories and associations whether persistence succeeds, fails with an
\* exception or has no store, and a persistence failure never raises out of the
\* stage: from every memory the tasks reach, and for every chunk and decay
\* factor, the three runs agree and none raises, and no task has failed on a
\* persistence error.
C17_PersistenceDoesNotMatter ==
  /\ \A t \in Tasks : tasks[t].exc # "PersistenceError"
  /\ \A store \in PersistOutcomes :
       /\ \A c \in 1..DecayPeriod :
            StrengthenSynapse(synaptic_weights, access_history, association_matrix,
                              recent, c, store)
              = StrengthenSynapse(synaptic_weights, access_history, association_matrix,
                                  recent, c, "absent")
       /\ \A f \in DecayFactors :
            MemoryDecay(synaptic_weights, access_history, key_order, f, store)
              = MemoryDecay(synaptic_weights, access_history, key_order, f, "absent")

\* Every persistence raised, and a call that strengthened, associated and
\* decayed returned all the same.
C17_Witness ==
  /\ pg_pool = "raises"
  /\ \E t \in Tasks : /\ tasks[t].status = "returned"
                      /\ tasks[t].associated = Len(tasks[t].chunks)
                      /\ tasks[t].keys # <<>>
  /\ DOMAIN association_matrix # {}

(***************************************************************************)
(* The diagnostics are no correctness gates.                               *)
(***************************************************************************)
\* The values a diagnostic scalar may have had in another run, in hundredths.
DiagnosticLevels == {0, 100}

\* Lines 93-130 for a run whose generation returned res and whose diagnostics
\* were coh, mem, ratio, cons and temp.
ResponseWith(res, coh, mem, ratio, cons, temp) ==
  IF IsRefusal(res) THEN RefusalResponse(res)
  ELSE FusedResponse(res, coh, mem, ratio, cons, temp)

\* What a response says apart from its confidence and its metadata.
Verdict(r) == <<r.answer, r.sources, r.query_type>>

\* C21: two runs of process_enhanced_query with the same generation result
\* that differ in the diagnostic scalars return the same answer, the same
\* sources and the same query_type.
C21_DiagnosticsGateNothing ==
  GenerationReturned =>
    \A coh \in DiagnosticLevels, mem \in DiagnosticLevels, ratio \in DiagnosticLevels,
       cons \in DiagnosticLevels, temp \in DiagnosticLevels :
       Verdict(ResponseWith(result, coh, mem, ratio, cons, temp)) = Verdict(response)

\* A fused response whose confidence would have been another with other
\* diagnostics.
C21_Witness ==
  /\ GenerationReturned
  /\ response.query_type = "6-tech-enhanced"
  /\ \E cons \in DiagnosticLevels :
        ResponseWith(result, coherence, MemoryStrength(synaptic_weights),
                     CompressionRatio(reference_waves), cons,
                     temporal_context).confidence # response.confidence

(***************************************************************************)
(* Properties of adapt_retrieval across calls.                             *)
(***************************************************************************)
AdaptReturned == call.op = "adapt_retrieval"

\* What the memory held for chunk c when the call began; a chunk without a
\* weight counts as never seen.
WeightBefore(c) ==
  IF c \in DOMAIN call.before[1] THEN call.before[1][c] ELSE BaseWeight

HistoryBefore(c) ==
  IF c \in DOMAIN call.before[1] /\ c \in DOMAIN call.before[2]
  THEN call.before[2][c] ELSE 0

\* C22: when adapt_retrieval has completed, every chunk of the candidate list
\* it was passed has a weight equal to the smaller of the cap and its weight
\* before the call (the base weight for a chunk never seen) plus the increment,
\* and its access history is one timestamp longer.
C22_EveryCandidateStrengthened ==
  AdaptReturned =>
    \A c \in Range(call.chunks) :
       /\ c \in DOMAIN synaptic_weights
       /\ synaptic_weights[c] = Min(WeightCap, WeightBefore(c) + WeightIncrement)
       /\ c \in DOMAIN access_history
       /\ access_history[c] = HistoryBefore(c) + 1

NonEmptyAdaptCall == AdaptReturned /\ call.chunks # <<>>

DecayRan == AdaptReturned /\ call.decayed

\* C23: in a sequence of adapt_retrieval calls without end, each with a
\* non-empty list, every call is followed, sooner or later, by a call in which
\* a decay pass runs, whatever chunks the calls touch.
C23_DecayRecurs == NonEmptyAdaptCall ~> DecayRan

\* The chunks the memory holds an association for.
Associated == UNION {{p[1], p[2]} : p \in DOMAIN association_matrix}

\* Chunks that lost their weight in a decay pass.
Pruned == ((DOMAIN access_history) \cup Associated) \ DOMAIN synaptic_weights

AboveFloor == \A c \in DOMAIN synaptic_weights : synaptic_weights[c] >= PruneFloor

\* C24 as claimed: after a decay pass no stored weight is below the floor, and
\* a chunk whose weight was pruned has no access history and no association
\* entry left.
C24_PrunedEntirely ==
  DecayRan => (AboveFloor /\ Pruned = {})

\* C24: after a decay pass no stored weight is below the floor. A chunk whose
\* weight fell below the floor loses its weight entry and nothing else: no
\* call removes an access history or an association entry, and no association
\* shrinks. The next access of such a chunk starts from the base weight and
\* from an empty history.
C24_PrunedKeepsTraces ==
  AdaptReturned =>
    /\ call.decayed => AboveFloor
    /\ DOMAIN call.before[2] \subseteq DOMAIN access_history
    /\ \A p \in DOMAIN call.before[3] :
          /\ p \in DOMAIN association_matrix
          /\ association_matrix[p] >= call.before[3][p]
    /\ \A c \in Range(Touched(call.chunks)) :
          (c \in DOMAIN call.before[2] /\ c \notin DOMAIN call.before[1]) =>
             /\ c \in DOMAIN synaptic_weights
             /\ synaptic_weights[c] = BaseWeight + WeightIncrement
             /\ access_history[c] = 1

\* A decay pass ran in a call that touched a chunk pruned before, whose
\* associations are still there, while another pruned chunk keeps its history.
C24_Witness ==
  /\ DecayRan
  /\ \E c \in Range(Touched(call.chunks)) :
        /\ c \in DOMAIN call.before[2]
        /\ c \notin DOMAIN call.before[1]
        /\ \E p \in DOMAIN call.before[3] : c \in {p[1], p[2]}
  /\ \E c \in DOMAIN access_history : c \notin DOMAIN synaptic_weights

(***************************************************************************)
(* Properties of the swarm.                                                *)
(***************************************************************************)
\* A call that reached swarm_search.
SwarmRan ==
  \/ call.op = "swarm_search"
  \/ call.op = "collective_retrieve" /\ call.chunks # <<>>

\* C25: at the start of every swarm run for dimension d the swarm holds
\* exactly n_agents agents with vectors of d dimensions. If d differs from the
\* dimension of the run before, every personal best is 0, the global best is
\* cleared and the pheromone map is empty; if it does not, agents, personal
\* bests, global best and pheromone map are those the run before left. A run
\* without candidates leaves the swarm as it started.
C25_SwarmStart ==
  SwarmRan =>
    LET st == call.start
    IN /\ Len(st.agents) = NumAgents
       /\ Len(st.population) = NumAgents
       /\ \A i \in DOMAIN st.population : st.population[i].dim = call.dim
       /\ dimensions = call.dim
       /\ IF call.before[1] # call.dim
          THEN /\ \A i \in DOMAIN st.agents : st.agents[i] = 0
               /\ st.global_best_score = 0
               /\ st.global_best_position = "None"
               /\ st.pheromone_trails = {}
               /\ st.population = InitialPopulation(call.dim)
          ELSE /\ st.agents = call.before[2]
               /\ st.global_best_score = call.before[3]
               /\ <<st.global_best_position, st.pheromone_trails, st.population>>
                     = call.colony
       /\ call.chunks = <<>> =>
             /\ agents = st.agents
             /\ global_best_score = st.global_best_score
             /\ ColonyState = <<st.global_best_position, st.pheromone_trails,
                                st.population>>

\* A run for another dimension than the one before, which had left a positive
\* global best and pheromone trails.
C25_Witness ==
  /\ SwarmRan
  /\ call.before[1] \notin {0, call.dim}
  /\ call.before[3] > 0
  /\ call.colony[1] = "set"
  /\ call.colony[2] # {}

\* C26: in a swarm run, at every iteration whose index is a multiple of 20
\* the adaptation runs and reaches the conversion of explorers into
\* exploiters, whatever the iteration budget is.
C26_AdaptsEveryTwentieth ==
  (SwarmRan /\ call.chunks # <<>>) =>
    \A k \in 0..(call.iterations - 1) :
       k % AdaptEvery = 0 => (k \in call.adapted /\ k \in call.converting)

\* The mean of the positive best scores.
MeanOfPositive(ag) ==
  LET positive == FilterSeq(ag, {x \in Range(ag) : x > 0})
  IN SumOver(positive, [x \in Range(ag) |-> x]) \div Len(positive)

\* C27: get_consensus returns the mean of the positive personal-best scores,
\* the default exactly when no agent has a positive personal best, and changes
\* nothing in the swarm.
C27_ConsensusIsMean ==
  call.op = "get_consensus" =>
    /\ SwarmState = call.before
    /\ ColonyState = call.colony
    /\ IF \A i \in DOMAIN agents : agents[i] <= 0
       THEN call.value = DefaultConsensus
       ELSE call.value = MeanOfPositive(agents)

Count(s, c) == Cardinality({i \in DOMAIN s : s[i] = c})

\* t holds the chunks of s, each as often as s does.
IsReordering(s, t) ==
  /\ Len(t) = Len(s)
  /\ \A c \in Range(s) \cup Range(t) : Count(t, c) = Count(s, c)

\* The swarm stage of the query has returned: the query went on to the
\* filter's refusal or to the next stage.
SwarmStageReturned ==
  /\ "swarm" \in Range(invoked)
  /\ \/ pc = "temporal"
     \/ "temporal" \in Range(invoked)
     \/ pc = "done" /\ response.query_type = "not-in-selected-documents"

\* C30: whatever the swarm held before, what collective_retrieve returns for
\* a non-empty candidate list is a reordering of that list, of the same length
\* and with the same chunks; and the usage-memory and holographic stages
\* before it hand on the list they were given.
C30_StagesKeepCandidates ==
  /\ []((quantum_chunks # <<>> /\ SwarmStageReturned) =>
           IsReordering(quantum_chunks, swarm_out))
  /\ [][(pc \in {"memory", "holographic"}) => (quantum_chunks' = quantum_chunks)]_vars

\* A later query whose swarm stage returned its candidates in another order.
C30_Witness ==
  /\ SwarmStageReturned
  /\ started > 1
  /\ dimensions # 0
  /\ Len(quantum_chunks) > 1
  /\ swarm_out # quantum_chunks
  /\ pc = "done"

\* The responses that end a query without an answer from the documents.
TerminalTypes ==
  {"no-results", "not-in-selected-documents", "insufficient-information", "error"}

\* C28: in every response of process_enhanced_query the confidence is 0
\* exactly when there are no sources: the no-results, not-in-selected-documents,
\* insufficient-information and error responses have confidence 0 and no
\* source, and a response with a positive confidence has a source, each source
\* being a chunk that was passed to the generation.
C28_ZeroConfidenceIffNoSources ==
  Returned =>
    /\ (response.confidence = 0) <=> (response.sources = <<>>)
    /\ response.query_type \in TerminalTypes =>
          (response.confidence = 0 /\ response.sources = <<>>)
    /\ response.confidence > 0 =>
          /\ response.sources # <<>>
          /\ \A i \in DOMAIN response.sources :
                response.sources[i].chunk_id \in Range(swarm_chunks)

\* The generation had chunks before it and refused; and the response has
\* neither confidence nor sources.
C28_Witness ==
  /\ Returned
  /\ response.query_type = "insufficient-information"
  /\ best_chunks # <<>>
  /\ response.confidence = 0
  /\ response.sources = <<>>

====
